---------------------------- MODULE Spec2Model ----------------------------
(***************************************************************************)
(* A model of the momentum scoring and ranking pipeline of MomentumTracker *)
(* (momentum_calculator.py, data_loader.py).                               *)
(*                                                                         *)
(* Numbers.  Closes are drawn from Closes, so every percentage return is   *)
(* an exact multiple of 1/PriceScale.  A momentum value is a real number;  *)
(* it is held exactly as its sign and its square, the square as a fraction *)
(* sqn/sqd in units of StdevDays*(StdevDays-1) (the sample variance's      *)
(* divisor), so that values of the two scoring modes compare exactly.      *)
(***************************************************************************)
EXTENDS Integers, Sequences, FiniteSets, TLC

(* ------------------------------ constants ------------------------------ *)

\* momentum(): the window needs 252 closes (momentum_calculator.py:25, 426, 427)
Window == 252
\* momentum(): daily returns over the last 126 days (momentum_calculator.py:29)
StdevDays == 126
\* momentum(): the short-term return looks 21 closes back (momentum_calculator.py:39)
ShortDays == 21
\* a filter that lets a symbol of 125 observations through
MinObservationsLow == StdevDays - 1
\* calculate_momentum_scores: min_observations (momentum_calculator.py:377)
MinObservations == 126
\* calculate_momentum_scores: the shortest history scored in fallback mode
\* (momentum_calculator.py:431)
FallbackMin == 126
\* calculate_momentum_scores: the fallback window (momentum_calculator.py:432)
FallbackWindow == 126
\* CACHE_VALID_DAYS (momentum_calculator.py:15)
CacheValidDays == 1
\* load_from_cache: seconds in a day, 60 * 60 * 24 (momentum_calculator.py:200)
SecondsPerDay == 86400
\* calculate_momentum_scores: max_calculation_time (momentum_calculator.py:399)
MaxCalculationTime == 1200

(* ------------------------------- bounds -------------------------------- *)

\* the calendar runs over Window + MaxExtra trading days
MaxExtra == 2

MaxDate == Window + MaxExtra

Closes == {1, 2}

PriceScale == CHOOSE m \in 1..4 :
                 /\ \A c \in Closes : m % c = 0
                 /\ \A k \in 1..(m - 1) : \E c \in Closes : k % c # 0

(* --------------------------- momentum values --------------------------- *)

\* np.nan
NaN == [def |-> FALSE, sgn |-> 0, sqn |-> 0, sqd |-> 1]

Sign(x) == IF x > 0 THEN 1 ELSE IF x < 0 THEN -1 ELSE 0

\* the real number sgn * sqrt(sqn / sqd), in the units described above
Real(sgn, sqn, sqd) == [def |-> TRUE, sgn |-> sgn, sqn |-> sqn, sqd |-> sqd]

\* the rational p / q (q > 0), as a momentum value
Frac(p, q) == Real(Sign(p), p * p, q * q * StdevDays * (StdevDays - 1))

notna(x) == x.def

\* x < y for two defined values
MomLess(x, y) ==
    IF x.sgn # y.sgn THEN x.sgn < y.sgn
    ELSE IF x.sgn = 0 THEN FALSE
    ELSE IF x.sgn = 1 THEN x.sqn * y.sqd < y.sqn * x.sqd
    ELSE x.sqn * y.sqd > y.sqn * x.sqd

\* x = y for two defined values
MomEq(x, y) == ~MomLess(x, y) /\ ~MomLess(y, x)

(* ------------------------------ sequences ------------------------------ *)

EmptyFcn == [s \in {} |-> 0]

\* the function f itself, held as a table: each entry is computed once
Table(f) == f @@ EmptyFcn

\* the sequence s itself, held as a list
List(s) == s \o <<>>

\* Python's s[a:b] for 0 <= a <= b <= len(s)
Slice0(s, a, b) == SubSeq(s, a + 1, b)

\* Python's s.iloc[-k]
FromEnd(s, k) == s[Len(s) - k + 1]

RECURSIVE SumTo(_, _, _)
\* the sum of f[k] for k in a..b, by halves
SumTo(f, a, b) ==
    IF a > b THEN 0
    ELSE IF a = b THEN f[a]
    ELSE LET mid == (a + b) \div 2 IN SumTo(f, a, mid) + SumTo(f, mid + 1, b)

(* ------------------------------ momentum() ----------------------------- *)

\* pd.Series(close_series).pct_change(), position k (1-based, k > 1),
\* times PriceScale
PctChange(close_series, k) ==
    (PriceScale * (close_series[k] - close_series[k - 1])) \div close_series[k - 1]

\* momentum(close_series): momentum_calculator.py:17-43
momentum(close_series) ==
    IF Len(close_series) < Window THEN NaN
    ELSE
      LET n == Len(close_series)
          lo == n - StdevDays + 1
          r == Table([k \in lo..n |-> PctChange(close_series, k)])
          sq == Table([k \in lo..n |-> r[k] * r[k]])
          s1 == SumTo(r, lo, n)
          s2 == SumTo(sq, lo, n)
          \* StdevDays*(StdevDays-1) times the sample variance, times PriceScale^2
          var == StdevDays * s2 - s1 * s1
          long_term == (PriceScale * (FromEnd(close_series, 1) - close_series[1]))
                          \div close_series[1]
          short_term == (PriceScale * (FromEnd(close_series, 1)
                                         - FromEnd(close_series, ShortDays)))
                          \div FromEnd(close_series, ShortDays)
          a == long_term - short_term
      IN IF var = 0 THEN NaN
         ELSE Real(Sign(a), a * a, var)

(* ------------------------------ the market ----------------------------- *)

\* ticker symbols, in sorted order (sorted(set(symbols_fixed)), line 292)
SymbolOrder == <<"A", "B", "C">>

Symbols == {SymbolOrder[i] : i \in 1..Len(SymbolOrder)}

Calendar == 1..MaxDate

Shapes == {"flat", "saw3", "saw5"}

\* the close of a price shape on calendar day d
ShapeClose(shape, d) ==
    CASE shape = "flat" -> 1
      [] shape = "saw3" -> IF d % 3 = 0 THEN 2 ELSE 1
      [] shape = "saw5" -> IF d % 5 = 0 THEN 2 ELSE 1

\* a price series: n daily closes, the last one on day last, sorted by date
Series(n, last, shape) ==
    List([i \in 1..n |->
            [date |-> last - n + i, close |-> ShapeClose(shape, last - n + i)]])

\* the price histories a symbol may have in the requested date range
Profiles ==
    { Series(MinObservations - 1, MaxDate, "saw5"),
      Series(MinObservations, MaxDate, "saw5"),
      Series(Window - 1, MaxDate - 1, "saw5"),
      Series(Window, MaxDate, "saw3"),
      Series(MaxDate, MaxDate, "saw3"),
      Series(Window + 1, MaxDate - 1, "flat") }

(* -------------------------------- state -------------------------------- *)

VARIABLES
    market,             \* the supplier's price series of every symbol
    now,                \* time.time(), in whole seconds
    ticks,              \* how often the clock has advanced
    cache_dir,          \* whether CACHE_DIR exists
    cache,              \* cache key -> [payload, mtime]: the files of CACHE_DIR
    runs,               \* calls of calculate_momentum_scores so far
    pc,                 \* where calculate_momentum_scores stands
    use_cache,          \* its parameter use_cache
    custom_file,        \* its parameter custom_file (0: None)
    cache_key,
    df_tickers,         \* the ticker table's Symbol column
    symbols_all,        \* the requested symbols, sorted
    prices,             \* valid symbol -> its rows (date, close), sorted by date
    excluded_symbols,
    symbols_to_process, \* the symbols of prices, in index order
    processed_symbols,  \* how many of them the scoring loop has taken
    momentum_values,    \* scored symbol -> its momentum_series
    result,             \* what calculate_momentum_scores returned, or raised
    formatted,          \* what format_momentum_data made of result
    successful_symbols, \* the symbols the download delivered closes for
    stocks_to_trade,    \* what get_top_bottom_stocks made of result
    dl_pc,              \* where download_data_with_retry stands
    dl_symbols,         \* its parameter symbols
    max_retries,        \* its parameter max_retries
    attempt,            \* the loop variable of its retry loop
    result_dfs,         \* download_individual_symbols: the symbols with data
    yf_calls,           \* the calls of yf.download so far, with their outcomes
    df,                 \* what download_data_with_retry returned
    app_pc,             \* where the script thread stands in calculate_momentum
    calculation_timeout,    \* the flag shared with the timer thread
    timer_pc,           \* where update_waiting_message stands
    wait_time,          \* its local wait_time
    main_status_container,  \* the last message written to each container
    progress_container,
    detail_container,
    data_source,        \* st.session_state.data_source
    using_custom_data,  \* st.session_state.using_custom_data
    uploaded_file,      \* st.session_state.uploaded_file (0: None)
    ticker_file_uploader,   \* the file in the file_uploader widget (0: None)
    ss_momentum_results,    \* st.session_state.momentum_results
    formatted_data,     \* st.session_state.formatted_data
    calculation_status  \* st.session_state.calculation_status

clockVars == <<now, ticks>>

cacheVars == <<cache_dir, cache>>

paramVars == <<use_cache, custom_file, cache_key>>

loadVars == <<df_tickers, symbols_all, successful_symbols>>

scoreVars == <<prices, excluded_symbols, symbols_to_process, processed_symbols,
               momentum_values>>

viewVars == <<formatted, stocks_to_trade>>

downloadVars == <<dl_pc, dl_symbols, max_retries, attempt, result_dfs, yf_calls, df>>

timerVars == <<calculation_timeout, timer_pc, wait_time>>

containerVars == <<main_status_container, progress_container, detail_container>>

sessionVars == <<data_source, using_custom_data, uploaded_file, ticker_file_uploader,
                 ss_momentum_results, formatted_data, calculation_status>>

\* the state of the download helper and of the dashboard
appVars == <<downloadVars, app_pc, timerVars, containerVars, sessionVars>>

vars == <<market, clockVars, cacheVars, runs, pc, paramVars, loadVars,
          scoreVars, result, viewVars, appVars>>

NoResult == [pending |-> TRUE]

Error(msg) == [error |-> msg]

Raised(exc) == [raised |-> exc]

IsError(r) == "error" \in DOMAIN r

IsRaised(r) == "raised" \in DOMAIN r

IsResult(r) == "today_sorted" \in DOMAIN r

\* the elements of seq that are in set, in seq's order
Restrict(seq, set) == LET Test(x) == x \in set IN SelectSeq(seq, Test)

SeqToSet(seq) == {seq[i] : i \in 1..Len(seq)}


(* ------------------------------- scoring ------------------------------- *)

\* a slip: the fallback window is not shortened for a short history
WindowSizeFixed(n) == FallbackWindow

\* window_size = min(126, len(symbol_data) - 1): momentum_calculator.py:432
WindowSize(n) == IF FallbackWindow < n - 1 THEN FallbackWindow ELSE n - 1

\* a slip: the mode chosen for every date from the closes up to that date
MomentumSeriesPerDate(symbol_data) ==
    LET n == Len(symbol_data)
        close == List([i \in 1..n |-> symbol_data[i].close])
    IN List([p \in 1..n |->
          LET i == p - 1
          IN IF n < FallbackMin THEN NaN
             ELSE IF i >= Window
               THEN momentum(Slice0(close, i - Window, i + 1))
             ELSE IF i >= FallbackWindow
               THEN Frac(close[i + 1] - close[i - FallbackWindow + 1],
                         close[i - FallbackWindow + 1])
             ELSE NaN])

\* the body of the scoring loop for one symbol: momentum_calculator.py:420-437
MomentumSeries(symbol_data) ==
    LET n == Len(symbol_data)
        close == List([i \in 1..n |-> symbol_data[i].close])
        window_size == WindowSize(n)
    IN List([p \in 1..n |->
          LET i == p - 1
          IN IF n >= Window
               THEN IF i >= Window
                      THEN momentum(Slice0(close, i - Window, i + 1))
                      ELSE NaN
             ELSE IF n >= FallbackMin
               THEN IF i >= window_size
                      THEN Frac(close[i + 1] - close[i - window_size + 1],
                                close[i - window_size + 1])
                      ELSE NaN
             ELSE NaN])

(* ------------------------------- ranking ------------------------------- *)

RECURSIVE FindDate(_, _, _, _)
\* the position in lo..hi of the row of date d (0: none); rows are sorted by
\* date
FindDate(rows, d, lo, hi) ==
    IF lo > hi THEN 0
    ELSE LET mid == (lo + hi) \div 2
         IN IF rows[mid].date = d THEN mid
            ELSE IF rows[mid].date < d THEN FindDate(rows, d, mid + 1, hi)
            ELSE FindDate(rows, d, lo, mid - 1)

\* date -> the position of the row of that date (0: none): the (symbol, date)
\* index of one symbol
DateIndex(rows) == Table([d \in Calendar |-> FindDate(rows, d, 1, Len(rows))])

RECURSIVE InsertDescTiesFirst(_, _, _, _)
\* a slip: a later position goes before the positions of equal value
InsertDescTiesFirst(order, vals, j, k) ==
    IF k > Len(order) THEN Append(order, j)
    ELSE IF ~MomLess(vals[j], vals[order[k]])
           THEN SubSeq(order, 1, k - 1) \o <<j>> \o SubSeq(order, k, Len(order))
    ELSE InsertDescTiesFirst(order, vals, j, k + 1)

RECURSIVE InsertDesc(_, _, _, _)
\* order: positions of vals sorted by descending value; j, a later position,
\* goes behind every position whose value is not smaller
InsertDesc(order, vals, j, k) ==
    IF k > Len(order) THEN Append(order, j)
    ELSE IF MomLess(vals[order[k]], vals[j])
           THEN SubSeq(order, 1, k - 1) \o <<j>> \o SubSeq(order, k, Len(order))
    ELSE InsertDesc(order, vals, j, k + 1)

RECURSIVE SortDesc(_, _)
\* the positions 1..j of the defined values of vals, by descending value, stable
SortDesc(vals, j) ==
    IF j = 0 THEN <<>>
    ELSE IF notna(vals[j]) THEN InsertDesc(SortDesc(vals, j - 1), vals, j, 1)
    ELSE SortDesc(vals, j - 1)

\* a slip: method="min", equal values share the smallest rank of their group
RankMinDesc(vals) ==
    List([j \in 1..Len(vals) |->
          IF notna(vals[j])
            THEN 1 + Cardinality({k \in 1..Len(vals) :
                                    notna(vals[k]) /\ MomLess(vals[j], vals[k])})
          ELSE 0])

\* Series.rank(ascending=False, method="first"): the rank of every value of
\* vals, 0 (NaN) for an undefined value
RankFirstDesc(vals) ==
    LET order == SortDesc(vals, Len(vals))
    IN List([j \in 1..Len(vals) |->
          IF notna(vals[j]) THEN CHOOSE k \in 1..Len(order) : order[k] = j ELSE 0])

\* a slip: the momentum of a symbol that was not scored filled with 0
JoinedFillZero(pr, mv) ==
    Table([s \in DOMAIN pr |->
       List([p \in 1..Len(pr[s]) |->
          [date |-> pr[s][p].date, close |-> pr[s][p].close,
           momentum |-> IF s \in DOMAIN mv THEN mv[s][p] ELSE Frac(0, 1)]])])

\* combined = prices.join(df_momentum, how="left"), before ranking: every
\* price row with its momentum, NaN for a symbol that was not scored
Joined(pr, mv) ==
    Table([s \in DOMAIN pr |->
       List([p \in 1..Len(pr[s]) |->
          [date |-> pr[s][p].date, close |-> pr[s][p].close,
           momentum |-> IF s \in DOMAIN mv THEN mv[s][p] ELSE NaN]])])

\* date -> symbol -> factor_rank: combined.groupby(level="date")["momentum"]
\* .rank(ascending=False, method="first"), the rows of a date taken in the
\* order of the symbols
RankByDate(joined, syms) ==
    LET idx == Table([s \in DOMAIN joined |-> DateIndex(joined[s])])
    IN Table([d \in Calendar |->
          LET group == LET Has(s) == idx[s][d] > 0 IN SelectSeq(syms, Has)
              vals == List([k \in 1..Len(group) |->
                              joined[group[k]][idx[group[k]][d]].momentum])
              ranks == RankFirstDesc(vals)
          IN Table([s \in SeqToSet(group) |->
                ranks[CHOOSE k \in 1..Len(group) : group[k] = s]])])

\* combined with its factor_rank column
Combined(joined, syms) ==
    LET rank == RankByDate(joined, syms)
    IN Table([s \in DOMAIN joined |->
          List([p \in 1..Len(joined[s]) |->
             [date |-> joined[s][p].date, close |-> joined[s][p].close,
              momentum |-> joined[s][p].momentum,
              factor_rank |-> rank[joined[s][p].date][s]]])])

RECURSIVE ValidDatesOfAllRows(_, _, _)
\* a slip: the dates of all rows, the notna() filter forgotten
ValidDatesOfAllRows(joined, syms, k) ==
    IF k = 0 THEN <<>>
    ELSE LET prev == ValidDatesOfAllRows(joined, syms, k - 1)
             seen == SeqToSet(prev)
             Fresh(row) == row.date \notin seen
             fresh == SelectSeq(joined[syms[k]], Fresh)
         IN prev \o List([i \in 1..Len(fresh) |-> fresh[i].date])

RECURSIVE ValidDates(_, _, _)
\* combined[combined["momentum"].notna()].index.get_level_values("date")
\* .unique(): the dates of the rows with a defined momentum, each once, in the
\* order of their first row; the rows of the first k symbols
ValidDates(joined, syms, k) ==
    IF k = 0 THEN <<>>
    ELSE LET prev == ValidDates(joined, syms, k - 1)
             seen == SeqToSet(prev)
             Fresh(row) == notna(row.momentum) /\ row.date \notin seen
             fresh == SelectSeq(joined[syms[k]], Fresh)
         IN prev \o List([i \in 1..Len(fresh) |-> fresh[i].date])

RECURSIVE InsertByRank(_, _, _)
InsertByRank(sorted, row, k) ==
    IF k > Len(sorted) THEN Append(sorted, row)
    ELSE IF row.factor_rank < sorted[k].factor_rank
           THEN SubSeq(sorted, 1, k - 1) \o <<row>> \o SubSeq(sorted, k, Len(sorted))
    ELSE InsertByRank(sorted, row, k + 1)

\* a slip: the rows left in index order
RowsAsTheyAre(rows, j) == SubSeq(rows, 1, j)

RECURSIVE SortByRank(_, _)
\* rows[1..j] by ascending factor_rank: today_data.sort_values("factor_rank")
SortByRank(rows, j) ==
    IF j = 0 THEN <<>> ELSE InsertByRank(SortByRank(rows, j - 1), rows[j], 1)

\* combined.xs(last_date, level="date").dropna()
TodayData(combined, syms, last_date) ==
    LET Row(s) == LET at == FindDate(combined[s], last_date, 1, Len(combined[s]))
                  IN IF at = 0 THEN <<>>
                     ELSE LET r == combined[s][at]
                          IN IF notna(r.momentum) /\ r.factor_rank # 0
                               THEN <<[symbol |-> s, close |-> r.close,
                                       momentum |-> r.momentum,
                                       factor_rank |-> r.factor_rank]>>
                             ELSE <<>>
        RECURSIVE Rows(_)
        Rows(k) == IF k = 0 THEN <<>> ELSE Rows(k - 1) \o Row(syms[k])
    IN Rows(Len(syms))

(* -------------------------------- cache -------------------------------- *)

None == [none |-> TRUE]

\* an entry whose file was opened for writing and not written out
Corrupt == [corrupt |-> TRUE]

\* the only date range of the model (start_date, end_date)
DateRange == <<"start", "end">>

\* cache_key: momentum_calculator.py:265-273; t is time.time()
CacheKey(cf, t) ==
    IF cf = 0 THEN [source |-> "sp500", stamp |-> 0, range |-> DateRange]
    ELSE [source |-> "custom", stamp |-> t, range |-> DateRange]

\* a slip: an entry is stale from the age of one day on
load_from_cache_before_one_day(key, readable) ==
    IF ~cache_dir THEN None
    ELSE IF key \notin DOMAIN cache THEN None
    ELSE IF now - cache[key].mtime >= CacheValidDays * SecondsPerDay THEN None
    ELSE IF ~readable \/ cache[key].payload = Corrupt THEN None
    ELSE cache[key].payload

\* load_from_cache(key): momentum_calculator.py:188-211; readable: whether
\* the file can be opened and read
load_from_cache(key, readable) ==
    IF ~cache_dir THEN None
    ELSE IF key \notin DOMAIN cache THEN None
    ELSE IF now - cache[key].mtime > CacheValidDays * SecondsPerDay THEN None
    ELSE IF ~readable \/ cache[key].payload = Corrupt THEN None
    ELSE cache[key].payload

WriteOutcomes == {"written", "open_fails", "dump_fails"}

\* a slip: one file for all keys, every entry holds what was saved last
save_to_cache_one_file(key, data, makedirs, write) ==
    IF ~cache_dir /\ ~makedirs
      THEN [dir |-> cache_dir, files |-> cache, raised |-> TRUE]
    ELSE LET Put(payload) ==
               [k \in DOMAIN cache \cup {key} |-> [payload |-> payload, mtime |-> now]]
         IN [dir |-> TRUE,
             files |-> CASE write = "written" -> Put(data)
                         [] write = "dump_fails" -> Put(Corrupt)
                         [] OTHER -> cache,
             raised |-> FALSE]

\* save_to_cache(key, data): momentum_calculator.py:213-225.  makedirs:
\* whether os.makedirs succeeds; write: how writing the file ends.  The
\* outcome: the directory, the files, and whether an exception leaves the
\* function
save_to_cache(key, data, makedirs, write) ==
    IF ~cache_dir /\ ~makedirs
      THEN [dir |-> cache_dir, files |-> cache, raised |-> TRUE]
    ELSE LET Put(payload) ==
               [k \in DOMAIN cache \cup {key} |->
                  IF k = key THEN [payload |-> payload, mtime |-> now] ELSE cache[k]]
         IN [dir |-> TRUE,
             files |-> CASE write = "written" -> Put(data)
                         [] write = "dump_fails" -> Put(Corrupt)
                         [] OTHER -> cache,
             raised |-> FALSE]

(* ----------------------- download_data_with_retry ---------------------- *)

\* the state of calculate_momentum_scores and of its callers' views
engineVars == <<market, clockVars, cacheVars, runs, pc, paramVars, loadVars,
                scoreVars, result, viewVars>>

\* max_retries=5, the default of download_data_with_retry
DefaultMaxRetries == 5

\* how a call of yf.download with a list of symbols may end: a table with
\* rows, an empty table, an exception whose text holds "Rate limit", any
\* other exception
BatchOutcomes == {"data", "empty", "rate_limit", "error"}

\* how a call of yf.download with one symbol may end
SingleOutcomes == {"data", "empty", "error"}

\* a price table with the columns of the symbols of cols
Frame(cols) == [columns |-> cols]

\* pd.DataFrame()
EmptyFrame == Frame({})

\* the calls of yf.download with the whole list, oldest first
BatchCalls == LET IsBatch(c) == c.kind = "batch" IN SelectSeq(yf_calls, IsBatch)

\* the calls of yf.download made by download_individual_symbols
SingleCalls == LET IsSingle(c) == c.kind = "single" IN SelectSeq(yf_calls, IsSingle)

\* download_data_with_retry(syms, max_retries=retries) is called with at most
\* 50 symbols, so that the loop of line 98 begins
CallDownload(syms, retries) ==
    /\ dl_pc = "idle"
    /\ dl_symbols' = syms
    /\ max_retries' = retries
    /\ attempt' = 0
    /\ result_dfs' = <<>>
    /\ yf_calls' = <<>>
    /\ IF retries = 0
         THEN dl_pc' = "returned" /\ df' = EmptyFrame
       ELSE dl_pc' = "attempt" /\ df' = NoResult
    /\ UNCHANGED <<engineVars, app_pc, timerVars, containerVars, sessionVars>>

\* a slip: an empty table is not retried
BatchAttemptEmptyNotRetried(outcome) ==
    /\ dl_pc = "attempt"
    /\ yf_calls' = Append(yf_calls, [kind |-> "batch", symbol |-> "", outcome |-> outcome])
    /\ UNCHANGED <<dl_symbols, max_retries, result_dfs>>
    /\ LET Retry == /\ attempt' = attempt + 1
                    /\ dl_pc' = "attempt"
                    /\ df' = df
           GiveUp == /\ attempt' = attempt
                     /\ IF Len(dl_symbols) > 1 /\ attempt = max_retries - 1
                          THEN dl_pc' = "individual" /\ df' = df
                        ELSE dl_pc' = "returned" /\ df' = EmptyFrame
       IN CASE outcome = "data" ->
                 /\ attempt' = attempt
                 /\ dl_pc' = "returned"
                 /\ df' = Frame(SeqToSet(dl_symbols))
            [] outcome = "empty" -> GiveUp
            [] outcome = "rate_limit" ->
                 IF attempt < max_retries - 1 THEN Retry ELSE GiveUp
            [] outcome = "error" -> GiveUp
    /\ UNCHANGED <<engineVars, app_pc, timerVars, containerVars, sessionVars>>

\* one pass of the retry loop, lines 98-138: yf.download is called with the
\* list and ends in outcome
BatchAttempt(outcome) ==
    /\ dl_pc = "attempt"
    /\ yf_calls' = Append(yf_calls, [kind |-> "batch", symbol |-> "", outcome |-> outcome])
    /\ UNCHANGED <<dl_symbols, max_retries, result_dfs>>
    /\ LET Retry == /\ attempt' = attempt + 1
                    /\ dl_pc' = "attempt"
                    /\ df' = df
           GiveUp == /\ attempt' = attempt
                     /\ IF Len(dl_symbols) > 1 /\ attempt = max_retries - 1
                          THEN dl_pc' = "individual" /\ df' = df
                        ELSE dl_pc' = "returned" /\ df' = EmptyFrame
       IN CASE outcome = "data" ->
                 /\ attempt' = attempt
                 /\ dl_pc' = "returned"
                 /\ df' = Frame(SeqToSet(dl_symbols))
            [] outcome = "empty" ->
                 IF attempt < max_retries - 1 THEN Retry ELSE GiveUp
            [] outcome = "rate_limit" ->
                 IF attempt < max_retries - 1 THEN Retry ELSE GiveUp
            [] outcome = "error" -> GiveUp
    /\ UNCHANGED <<engineVars, app_pc, timerVars, containerVars, sessionVars>>

\* one pass of the loop of download_individual_symbols, lines 146-176, and
\* after the last symbol lines 178-186: yf.download is called with one symbol
\* and ends in outcome; concat_ok: whether pd.concat of the tables succeeds
IndividualDownload(outcome, concat_ok) ==
    /\ dl_pc = "individual"
    /\ LET symbol == dl_symbols[Len(SingleCalls) + 1]
           dfs == IF outcome = "data" THEN Append(result_dfs, symbol) ELSE result_dfs
       IN /\ yf_calls' = Append(yf_calls, [kind |-> "single", symbol |-> symbol,
                                           outcome |-> outcome])
          /\ result_dfs' = dfs
          /\ IF Len(SingleCalls) + 1 < Len(dl_symbols)
               THEN dl_pc' = "individual" /\ df' = df
             ELSE /\ dl_pc' = "returned"
                  /\ df' = IF dfs # <<>> /\ concat_ok THEN Frame(SeqToSet(dfs))
                           ELSE EmptyFrame
    /\ UNCHANGED <<dl_symbols, max_retries, attempt>>
    /\ UNCHANGED <<engineVars, app_pc, timerVars, containerVars, sessionVars>>

\* what a container of the page shows: the text written last and, for the
\* caption that names it, the waiting time
Message(text, waited) == [text |-> text, waited |-> waited]

\* download_data_with_retry has not been called
InitDownload ==
    /\ dl_pc = "idle"
    /\ dl_symbols = <<>>
    /\ max_retries = DefaultMaxRetries
    /\ attempt = 0
    /\ result_dfs = <<>>
    /\ yf_calls = <<>>
    /\ df = NoResult

(* ----------------------- calculate_momentum_scores --------------------- *)

\* load_ticker_data(custom_file)["Symbol"]: the default list, or an upload
TickerFile(cf) ==
    CASE cf = 0 -> <<"A", "B", "C">>
      [] cf = 1 -> <<"A", "B">>
      [] OTHER -> <<"C", "B", "C">>

\* replacements and the filter of lines 289-291
FixSymbol(sym) == IF sym = "BRK.B" THEN "BRK-B" ELSE sym

\* symbols_all: momentum_calculator.py:286-292
SymbolsAll(tickers) ==
    Restrict(SymbolOrder, {FixSymbol(tickers[i]) : i \in 1..Len(tickers)} \ {"ATVI"})

ResetRun ==
    /\ df_tickers' = <<>>
    /\ symbols_all' = <<>>
    /\ successful_symbols' = <<>>
    /\ prices' = EmptyFcn
    /\ excluded_symbols' = <<>>
    /\ symbols_to_process' = <<>>
    /\ processed_symbols' = 0
    /\ momentum_values' = EmptyFcn

\* calculate_momentum_scores is called, lines 248-281: the parameters, the
\* cache key and the cache lookup, as its caller sees them
BeginRun(uc, cf, readable) ==
    /\ pc = "idle"
    /\ runs' = runs + 1
    /\ use_cache' = uc
    /\ custom_file' = cf
    /\ cache_key' = CacheKey(cf, now)
    /\ LET cached_result == IF uc THEN load_from_cache(CacheKey(cf, now), readable)
                            ELSE None
       IN IF cached_result # None
            THEN /\ result' = cached_result
                 /\ pc' = "done"
            ELSE /\ result' = NoResult
                 /\ pc' = "load"
    /\ UNCHANGED <<viewVars, market, clockVars, cacheVars, loadVars, scoreVars>>

\* a slip: the cache looked up whatever use_cache says
StartRunAlwaysLooksUp(uc, cf, readable) ==
    /\ pc = "idle"
    /\ runs' = runs + 1
    /\ use_cache' = uc
    /\ custom_file' = cf
    /\ cache_key' = CacheKey(cf, now)
    /\ LET cached_result == load_from_cache(CacheKey(cf, now), readable)
       IN IF cached_result # None
            THEN /\ result' = cached_result
                 /\ pc' = "done"
            ELSE /\ result' = NoResult
                 /\ pc' = "load"
    /\ UNCHANGED <<appVars, viewVars, market, clockVars, cacheVars, loadVars, scoreVars>>

\* lines 248-281: the parameters, the cache key and the cache lookup
StartRun(uc, cf, readable) ==
    /\ BeginRun(uc, cf, readable)
    /\ UNCHANGED appVars

\* a slip: a download that lacks a requested symbol is taken for a failure
LoadPricesAllOrNothing(missing) ==
    /\ pc = "load"
    /\ LET tickers == TickerFile(custom_file)
           all == SymbolsAll(tickers)
           got == {s \in SeqToSet(all) \ missing : Len(market[s]) > 0}
           valid_symbols == {s \in got : Len(market[s]) >= MinObservations}
       IN /\ df_tickers' = tickers
          /\ symbols_all' = all
          /\ successful_symbols' = Restrict(SymbolOrder, got)
          /\ IF got # SeqToSet(all)
               THEN /\ result' = Error("Failed to download any stock data")
                    /\ pc' = "done"
                    /\ UNCHANGED scoreVars
             ELSE IF valid_symbols = {}
               THEN /\ result' = Error("No symbols with sufficient price history")
                    /\ pc' = "done"
                    /\ excluded_symbols' = Restrict(SymbolOrder, SeqToSet(all) \ valid_symbols)
                    /\ UNCHANGED <<prices, symbols_to_process, processed_symbols,
                                   momentum_values>>
             ELSE /\ result' = NoResult
                  /\ pc' = "score"
                  /\ prices' = [s \in valid_symbols |-> market[s]]
                  /\ excluded_symbols' = Restrict(SymbolOrder, SeqToSet(all) \ valid_symbols)
                  /\ symbols_to_process' = Restrict(SymbolOrder, valid_symbols)
                  /\ processed_symbols' = 0
                  /\ momentum_values' = EmptyFcn
    /\ UNCHANGED <<appVars, viewVars, market, clockVars, cacheVars, runs, paramVars>>

\* lines 283-394: the ticker table, the download (the symbols of missing
\* yield no price data) and the filter for sufficient history
LoadPrices(missing) ==
    /\ pc = "load"
    /\ LET tickers == TickerFile(custom_file)
           all == SymbolsAll(tickers)
           got == {s \in SeqToSet(all) \ missing : Len(market[s]) > 0}
           valid_symbols == {s \in got : Len(market[s]) >= MinObservations}
       IN /\ df_tickers' = tickers
          /\ symbols_all' = all
          /\ successful_symbols' = Restrict(SymbolOrder, got)
          /\ IF got = {}
               THEN /\ result' = Error("Failed to download any stock data")
                    /\ pc' = "done"
                    /\ UNCHANGED scoreVars
             ELSE IF valid_symbols = {}
               THEN /\ result' = Error("No symbols with sufficient price history")
                    /\ pc' = "done"
                    /\ excluded_symbols' = Restrict(SymbolOrder, SeqToSet(all) \ valid_symbols)
                    /\ UNCHANGED <<prices, symbols_to_process, processed_symbols,
                                   momentum_values>>
             ELSE /\ result' = NoResult
                  /\ pc' = "score"
                  /\ prices' = [s \in valid_symbols |-> market[s]]
                  /\ excluded_symbols' = Restrict(SymbolOrder, SeqToSet(all) \ valid_symbols)
                  /\ symbols_to_process' = Restrict(SymbolOrder, valid_symbols)
                  /\ processed_symbols' = 0
                  /\ momentum_values' = EmptyFcn
    /\ UNCHANGED <<appVars, viewVars, market, clockVars, cacheVars, runs, paramVars>>

\* a slip: the budget is checked inside the loop over the dates, and the
\* symbol it interrupts keeps the scores of the first half of its rows
ScoreStepInterrupted(elapsed, fault) ==
    /\ pc = "score"
    /\ LET symbol == symbols_to_process[processed_symbols + 1]
           full == MomentumSeries(prices[symbol])
           part == List([p \in 1..Len(full) |->
                           IF 2 * p <= Len(full) + Window THEN full[p] ELSE NaN])
       IN /\ processed_symbols' = processed_symbols + 1
          /\ momentum_values' =
               IF fault THEN momentum_values
               ELSE [s \in DOMAIN momentum_values \cup {symbol} |->
                       IF s = symbol
                         THEN IF elapsed > MaxCalculationTime THEN part ELSE full
                       ELSE momentum_values[s]]
          /\ pc' = IF processed_symbols + 1 = Len(symbols_to_process)
                        \/ elapsed > MaxCalculationTime
                     THEN "rank" ELSE "score"
    /\ UNCHANGED <<appVars, viewVars, market, clockVars, cacheVars, runs, paramVars, loadVars,
                   prices, excluded_symbols, symbols_to_process, result>>

\* one pass of the scoring loop, lines 405-450: elapsed is the time the loop
\* has taken when the pass begins, fault whether scoring the symbol raises
ScoreStep(elapsed, fault) ==
    /\ pc = "score"
    /\ LET symbol == symbols_to_process[processed_symbols + 1]
       IN IF elapsed > MaxCalculationTime
            THEN /\ pc' = "rank"
                 /\ UNCHANGED <<processed_symbols, momentum_values>>
          ELSE /\ processed_symbols' = processed_symbols + 1
               /\ momentum_values' =
                    IF fault THEN momentum_values
                    ELSE [s \in DOMAIN momentum_values \cup {symbol} |->
                            IF s = symbol THEN MomentumSeries(prices[symbol])
                            ELSE momentum_values[s]]
               /\ pc' = IF processed_symbols + 1 = Len(symbols_to_process)
                          THEN "rank" ELSE "score"
    /\ UNCHANGED <<appVars, viewVars, market, clockVars, cacheVars, runs, paramVars, loadVars,
                   prices, excluded_symbols, symbols_to_process, result>>

\* lines 465-491: the value of a run whose valid_dates is not empty
Ranked(pr, mv, syms, tickers, excluded) ==
    LET joined == Joined(pr, mv)
        valid_dates == ValidDates(joined, syms, Len(syms))
    IN IF Len(valid_dates) > 0
         THEN LET combined == Combined(joined, syms)
                  last_date == valid_dates[Len(valid_dates)]
                  today_data == TodayData(combined, syms, last_date)
              IN [momentum_data |-> mv,
                  combined_data |-> combined,
                  last_date |-> last_date,
                  today_sorted |-> SortByRank(today_data, Len(today_data)),
                  valid_dates |-> valid_dates,
                  tickers_info |-> tickers,
                  excluded_symbols |-> excluded]
       ELSE Error("No valid momentum values found")

\* a slip: the check of lines 453-456 forgotten; pd.concat of an empty list
\* raises ValueError
RankAndReturnUnchecked(makedirs_outcomes, write_outcomes) ==
    /\ pc = "rank"
    /\ pc' = "done"
    /\ IF DOMAIN momentum_values = {}
         THEN /\ result' = Raised("ValueError")
              /\ UNCHANGED cacheVars
       ELSE LET res == Ranked(prices, momentum_values, symbols_to_process,
                              df_tickers, excluded_symbols)
            IN IF IsResult(res) /\ use_cache
                 THEN \E makedirs \in makedirs_outcomes, write \in write_outcomes :
                        LET saved == save_to_cache(cache_key, res, makedirs, write)
                        IN /\ cache_dir' = saved.dir
                           /\ cache' = saved.files
                           /\ result' = IF saved.raised THEN Raised("OSError") ELSE res
               ELSE /\ result' = res
                    /\ UNCHANGED cacheVars
    /\ UNCHANGED <<appVars, viewVars, market, clockVars, runs, paramVars, loadVars, scoreVars>>

\* a slip: the value of the run saved before it is known to be a result
RankAndReturnSavesAny(makedirs_outcomes, write_outcomes) ==
    /\ pc = "rank"
    /\ pc' = "done"
    /\ LET res == IF DOMAIN momentum_values = {}
                    THEN Error("Failed to calculate momentum for any stocks")
                  ELSE Ranked(prices, momentum_values, symbols_to_process,
                              df_tickers, excluded_symbols)
       IN IF use_cache
            THEN \E makedirs \in makedirs_outcomes, write \in write_outcomes :
                   LET saved == save_to_cache(cache_key, res, makedirs, write)
                   IN /\ cache_dir' = saved.dir
                      /\ cache' = saved.files
                      /\ result' = IF saved.raised THEN Raised("OSError") ELSE res
          ELSE /\ result' = res
               /\ UNCHANGED cacheVars
    /\ UNCHANGED <<appVars, viewVars, market, clockVars, runs, paramVars, loadVars, scoreVars>>

\* lines 452-501: join, rank, the today view, the cache and the return.
\* makedirs_outcomes and write_outcomes: the ways the file system may answer
\* save_to_cache
RankAndReturn(makedirs_outcomes, write_outcomes) ==
    /\ pc = "rank"
    /\ pc' = "done"
    /\ IF DOMAIN momentum_values = {}
         THEN /\ result' = Error("Failed to calculate momentum for any stocks")
              /\ UNCHANGED cacheVars
       ELSE LET res == Ranked(prices, momentum_values, symbols_to_process,
                              df_tickers, excluded_symbols)
            IN IF IsResult(res) /\ use_cache
                 THEN \E makedirs \in makedirs_outcomes, write \in write_outcomes :
                        LET saved == save_to_cache(cache_key, res, makedirs, write)
                        IN /\ cache_dir' = saved.dir
                           /\ cache' = saved.files
                           /\ result' = IF saved.raised THEN Raised("OSError") ELSE res
               ELSE /\ result' = res
                    /\ UNCHANGED cacheVars
    /\ UNCHANGED <<appVars, viewVars, market, clockVars, runs, paramVars, loadVars, scoreVars>>

\* the caller takes the result; the next call may begin
Return ==
    /\ pc = "done"
    /\ pc' = "idle"
    /\ result' = NoResult
    /\ formatted' = NoResult
    /\ stocks_to_trade' = NoResult
    /\ ResetRun
    /\ UNCHANGED <<appVars, market, clockVars, cacheVars, runs, paramVars>>

\* time passes.  The clock is read when a call begins (time.time() at lines
\* 200 and 270) and when the cache file is written (its mtime, line 221), so
\* it steps before one of the two
Tick(seconds) ==
    /\ pc \in {"idle", "rank"}
    /\ now' = now + seconds
    /\ ticks' = ticks + 1
    /\ UNCHANGED <<appVars, viewVars, market, cacheVars, runs, pc, paramVars, loadVars, scoreVars,
                   result>>

(* ---------------------- the scoring pass, one run ---------------------- *)

ElapsedTimes == {0, MaxCalculationTime, MaxCalculationTime + 1}

\* the clock and an empty cache
InitEnv ==
    /\ now = 0
    /\ ticks = 0
    /\ cache_dir = FALSE
    /\ cache = EmptyFcn
    /\ runs = 0

\* no call of calculate_momentum_scores has begun
InitLocals ==
    /\ use_cache = FALSE
    /\ custom_file = 0
    /\ cache_key = CacheKey(0, 0)
    /\ df_tickers = <<>>
    /\ symbols_all = <<>>
    /\ successful_symbols = <<>>
    /\ prices = EmptyFcn
    /\ excluded_symbols = <<>>
    /\ symbols_to_process = <<>>
    /\ processed_symbols = 0
    /\ momentum_values = EmptyFcn

\* the session state of a new session, app.py:91-100 and 357-359; no
\* calculation is under way and the containers are empty
InitDashboard ==
    /\ app_pc = "idle"
    /\ calculation_timeout = FALSE
    /\ timer_pc = "off"
    /\ wait_time = 0
    /\ main_status_container = Message("", 0)
    /\ progress_container = Message("", 0)
    /\ detail_container = Message("", 0)
    /\ data_source = "default"
    /\ using_custom_data = FALSE
    /\ uploaded_file = 0
    /\ ticker_file_uploader = 0
    /\ ss_momentum_results = None
    /\ formatted_data = None
    /\ calculation_status = "None"

InitApp ==
    /\ InitDownload
    /\ InitDashboard

InitRun ==
    /\ InitApp
    /\ InitEnv
    /\ InitLocals
    /\ pc = "idle"
    /\ result = NoResult
    /\ formatted = NoResult
    /\ stocks_to_trade = NoResult

InitScore ==
    /\ market \in [Symbols -> Profiles]
    /\ InitRun

NextScore ==
    \/ runs = 0 /\ StartRun(FALSE, 0, TRUE)
    \/ LoadPrices({})
    \/ \E elapsed \in ElapsedTimes, fault \in BOOLEAN : ScoreStep(elapsed, fault)
    \/ RankAndReturn({TRUE}, {"written"})

\* one call of calculate_momentum_scores on every market, without the cache
SpecScore == InitScore /\ [][NextScore]_vars

(* ------------------- one run on a partial download --------------------- *)

\* the histories of a symbol: fallback mode with one and with many scored
\* dates, primary mode, and constant closes (no defined score)
PartialProfiles ==
    { Series(MinObservations, MaxDate, "saw5"),
      Series(Window - 1, MaxDate - 1, "saw5"),
      Series(MaxDate, MaxDate, "saw3"),
      Series(Window + 1, MaxDate - 1, "flat") }

InitPartial ==
    /\ market \in [Symbols -> PartialProfiles]
    /\ InitRun

NextPartial ==
    \/ runs = 0 /\ StartRun(FALSE, 0, TRUE)
    \/ \E missing \in SUBSET Symbols : LoadPrices(missing)
    \/ ScoreStep(0, FALSE)
    \/ RankAndReturn({TRUE}, {"written"})

\* one call of calculate_momentum_scores; the download delivers any part of
\* the requested symbols
SpecPartial == InitPartial /\ [][NextPartial]_vars

(* ------------------ runs that share the cache directory ---------------- *)

\* the calls of calculate_momentum_scores in one history
MaxRuns == 2

\* the steps of the clock in one history
MaxTicks == 2

\* custom_file: None (0) or one of two uploads with different symbols
Uploads == {0, 1, 2}

\* the steps of the clock: a second, a day
ClockSteps == {1, CacheValidDays * SecondsPerDay}

\* one market: B has 126 closes, the other symbols MaxDate closes
SharedMarket ==
    [s \in Symbols |-> IF s = "B" THEN Series(MinObservations, MaxDate, "saw5")
                       ELSE Series(MaxDate, MaxDate, "saw3")]

Init ==
    /\ market = SharedMarket
    /\ InitRun

Next ==
    \/ \E uc \in BOOLEAN, cf \in Uploads, readable \in BOOLEAN :
         runs < MaxRuns /\ StartRun(uc, cf, readable)
    \/ LoadPrices({})
    \/ ScoreStep(0, FALSE)
    \/ RankAndReturn(BOOLEAN, WriteOutcomes)
    \/ Return
    \/ \E seconds \in ClockSteps : ticks < MaxTicks /\ Tick(seconds)

\* calls of calculate_momentum_scores one after another, with the cache, the
\* clock and the failures of the file system
Spec == Init /\ [][Next]_vars

(* ------------- runs that share a cache on a sound file system ---------- *)

\* one market of short histories: 126 closes, B one more
CacheMarket ==
    [s \in Symbols |-> Series(IF s = "B" THEN MinObservations + 1 ELSE MinObservations,
                              MaxDate, "saw5")]

InitCache ==
    /\ market = CacheMarket
    /\ InitRun

NextCache ==
    \/ \E cf \in Uploads : runs < MaxRuns /\ StartRun(TRUE, cf, TRUE)
    \/ LoadPrices({})
    \/ ScoreStep(0, FALSE)
    \/ RankAndReturn({TRUE}, {"written"})
    \/ Return
    \/ \E seconds \in ClockSteps : ticks < MaxTicks /\ pc = "idle" /\ Tick(seconds)

\* calls of calculate_momentum_scores with use_cache=True one after another,
\* the clock stepping between them; the cache directory can be created, its
\* files written and read
SpecCache == InitCache /\ [][NextCache]_vars

(* --------------- runs with and without the cache, any outcome ---------- *)

\* the markets of these runs: short histories that are scored, histories
\* below the minimum, and histories of exactly 252 closes, which have no
\* defined momentum
OutcomeMarkets ==
    { CacheMarket,
      [s \in Symbols |-> Series(MinObservations - 1, MaxDate, "saw5")],
      [s \in Symbols |-> Series(Window, MaxDate, "saw5")] }

InitOutcome ==
    /\ market \in OutcomeMarkets
    /\ InitRun

NextOutcome ==
    \/ \E uc \in BOOLEAN, cf \in {0, 1} : runs < MaxRuns /\ StartRun(uc, cf, TRUE)
    \/ \E missing \in {{}, Symbols} : LoadPrices(missing)
    \/ \E elapsed \in {0, MaxCalculationTime + 1} : ScoreStep(elapsed, FALSE)
    \/ RankAndReturn({TRUE}, {"written"})
    \/ Return

\* calls of calculate_momentum_scores one after another, with and without
\* the cache; the download may fail and the time budget may run out
SpecOutcome == InitOutcome /\ [][NextOutcome]_vars

(* ------------------- a call of download_data_with_retry ---------------- *)

\* the lists download_data_with_retry is called with: one to three symbols
DownloadLists == {SubSeq(SymbolOrder, 1, n) : n \in 1..Len(SymbolOrder)}

InitDownloadCall ==
    /\ market = [s \in Symbols |-> <<>>]
    /\ InitRun

NextDownload ==
    \/ \E syms \in DownloadLists, retries \in 1..DefaultMaxRetries :
         CallDownload(syms, retries)
    \/ \E outcome \in BatchOutcomes : BatchAttempt(outcome)
    \/ \E outcome \in SingleOutcomes, concat_ok \in BOOLEAN :
         IndividualDownload(outcome, concat_ok)

\* one call of download_data_with_retry with at most 50 symbols, the
\* supplier answering every request in any way.  Every call of yf.download
\* returns or raises (it is given a timeout) and every sleep ends, so a step
\* that can be taken is taken
SpecDownload == InitDownloadCall /\ [][NextDownload]_vars /\ WF_vars(NextDownload)

(* ------------------------- format_momentum_data ------------------------ *)

\* the largest today view of the classifier's specification
MaxK == 100

\* int(num_stocks * 0.1), line 165: the product of a count below 200000 and
\* the double 0.1 truncates to the tenth of the count, rounded down
TopThreshold(num_stocks) == num_stocks \div 10

\* int(num_stocks * 0.9), line 171
BottomThreshold(num_stocks) == (9 * num_stocks) \div 10

\* pd.merge(today_df, tickers_df, left_on="symbol", right_on="Symbol",
\* how="left"), lines 147-153: every row of the today view once for each row
\* of the ticker table with its symbol, once (without company information,
\* Symbol = "NaN") if there is none
RECURSIVE MergeLeft(_, _, _)
MergeLeft(today, tickers, k) ==
    IF k = 0 THEN <<>>
    ELSE LET row == today[k]
             Same(sym) == sym = row.symbol
             matches == SelectSeq(tickers, Same)
             With(sym) == [symbol |-> row.symbol, momentum |-> row.momentum,
                           factor_rank |-> row.factor_rank, Symbol |-> sym]
         IN MergeLeft(today, tickers, k - 1) \o
              (IF Len(matches) = 0 THEN <<With("NaN")>>
               ELSE List([i \in 1..Len(matches) |-> With(matches[i])]))

\* the classification column after the four assignments of lines 162-174,
\* for a row of rank factor_rank in a display table of num_stocks rows
Classification(factor_rank, num_stocks) ==
    LET top_threshold == TopThreshold(num_stocks)
        bottom_threshold == BottomThreshold(num_stocks)
        c0 == "Neutral"
        c1 == IF factor_rank <= top_threshold THEN "Strong Buy" ELSE c0
        c2 == IF factor_rank > top_threshold /\ factor_rank <= top_threshold * 2
                THEN "Buy" ELSE c1
        c3 == IF factor_rank >= bottom_threshold THEN "Strong Sell" ELSE c2
        c4 == IF factor_rank < bottom_threshold
                   /\ factor_rank >= bottom_threshold - top_threshold
                THEN "Sell" ELSE c3
    IN c4

\* a slip: the last n rows instead of the first
LastRows(seq, n) ==
    SubSeq(seq, Len(seq) - (IF Len(seq) < n THEN Len(seq) ELSE n) + 1, Len(seq))

\* df.head(n)
HeadRows(seq, n) == SubSeq(seq, 1, IF Len(seq) < n THEN Len(seq) ELSE n)

\* format_momentum_data(momentum_results): data_loader.py:122-185 (without
\* the rounding of momentum and the industry breakdown)
format_momentum_data(momentum_results) ==
    IF IsError(momentum_results) THEN Error(momentum_results.error)
    ELSE
      LET full_df == MergeLeft(momentum_results.today_sorted,
                               momentum_results.tickers_info,
                               Len(momentum_results.today_sorted))
          num_stocks == Len(full_df)
          display_df ==
            List([i \in 1..num_stocks |->
                    [symbol |-> full_df[i].symbol,
                     Symbol |-> full_df[i].Symbol,
                     momentum |-> full_df[i].momentum,
                     factor_rank |-> full_df[i].factor_rank,
                     classification |-> Classification(full_df[i].factor_rank,
                                                       num_stocks)]])
          StrongBuy(row) == row.classification = "Strong Buy"
          StrongSell(row) == row.classification = "Strong Sell"
      IN [display_df |-> display_df,
          last_date |-> momentum_results.last_date,
          top_stocks |-> HeadRows(SelectSeq(display_df, StrongBuy), 10),
          bottom_stocks |-> HeadRows(SelectSeq(display_df, StrongSell), 10)]

\* the dashboard formats the result of a run
FormatMomentumData ==
    /\ pc = "done"
    /\ ~IsRaised(result)
    /\ formatted = NoResult
    /\ formatted' = format_momentum_data(result)
    /\ UNCHANGED <<appVars, market, clockVars, cacheVars, runs, pc, paramVars, loadVars,
                   scoreVars, result, stocks_to_trade>>

(* ------------------------ get_top_bottom_stocks ------------------------ *)

\* the largest n get_top_bottom_stocks is called with
MaxN == 5

\* df.tail(n); tail(0) is empty
TailRows(seq, n) ==
    SubSeq(seq, Len(seq) - (IF Len(seq) < n THEN Len(seq) ELSE n) + 1, Len(seq))

\* a slip: n taken as it is
TopNUnclamped(n, len) == n

\* top_N = min(n, len(today_sorted) // 2), line 510
TopN(n, len) == IF n < len \div 2 THEN n ELSE len \div 2

\* df.assign(side=side)
AssignSide(rows, side) ==
    List([i \in 1..Len(rows) |->
            [symbol |-> rows[i].symbol, momentum |-> rows[i].momentum,
             factor_rank |-> rows[i].factor_rank, side |-> side]])

\* get_top_bottom_stocks(momentum_result, n): momentum_calculator.py:503-515
get_top_bottom_stocks(momentum_result, n) ==
    IF IsError(momentum_result) THEN None
    ELSE LET today_sorted == momentum_result.today_sorted
             top_N == TopN(n, Len(today_sorted))
             stocks_to_buy == AssignSide(HeadRows(today_sorted, top_N), 1)
             stocks_to_short == AssignSide(TailRows(today_sorted, top_N), -1)
         IN stocks_to_buy \o stocks_to_short

\* what a call has returned to its caller
Returned(value) == [returned |-> value]

\* a caller takes the top and bottom n of the result of a run
GetTopBottomStocks(n) ==
    /\ pc = "done"
    /\ ~IsRaised(result)
    /\ stocks_to_trade = NoResult
    /\ stocks_to_trade' = Returned(get_top_bottom_stocks(result, n))
    /\ UNCHANGED <<appVars, market, clockVars, cacheVars, runs, pc, paramVars, loadVars,
                   scoreVars, result, formatted>>

(* ----------------------------- the dashboard --------------------------- *)

\* max_wait_time = 180, app.py:206
MaxWaitTime == 180

\* update_interval = 20, app.py:207
UpdateInterval == 20

\* the script's lines 417-463 on a rerun: what the session state holds after
\* them, the file uploader holding widget (0: no file, or not shown) and the
\* session state holding the other values before
UploaderSection(source, custom, current_file, widget, results, formatted_results) ==
    IF source = "custom" /\ widget # 0
      THEN LET is_new_file == current_file = 0 \/ widget # current_file
           IN [using_custom_data |-> TRUE,
               uploaded_file |-> widget,
               momentum_results |-> IF is_new_file THEN None ELSE results,
               formatted_data |-> IF is_new_file THEN None ELSE formatted_results]
    ELSE [using_custom_data |-> custom,
          uploaded_file |-> current_file,
          momentum_results |-> results,
          formatted_data |-> formatted_results]

\* a rerun of the script in which Calculate is not pressed, lines 356-485;
\* a file uploader that is not shown loses its file
Rerun(source, custom, current_file, widget, results, formatted_results) ==
    LET after == UploaderSection(source, custom, current_file, widget, results,
                                 formatted_results)
    IN /\ data_source' = source
       /\ using_custom_data' = after.using_custom_data
       /\ uploaded_file' = after.uploaded_file
       /\ ticker_file_uploader' = IF source = "custom" THEN widget ELSE 0
       /\ ss_momentum_results' = after.momentum_results
       /\ formatted_data' = after.formatted_data
       /\ UNCHANGED <<calculation_status, engineVars, downloadVars, app_pc, timerVars,
                      containerVars>>

\* the button "Use S&P 500 List": use_default_sp500, app.py:336-347, and the
\* rerun
UseDefaultSP500 ==
    /\ app_pc = "idle"
    /\ Rerun("default", FALSE, 0, 0, None, None)

\* the button "Use Custom Ticker List": use_custom_list, app.py:350-354, and
\* the rerun
UseCustomList ==
    /\ app_pc = "idle"
    /\ Rerun("custom", TRUE, uploaded_file, ticker_file_uploader,
             ss_momentum_results, formatted_data)

\* the user puts a file into the file uploader or takes it out (0), and the
\* rerun: app.py:410-485
UploadFile(file) ==
    /\ app_pc = "idle"
    /\ data_source = "custom"
    /\ file # ticker_file_uploader
    /\ Rerun(data_source, using_custom_data, uploaded_file, file,
             ss_momentum_results, formatted_data)

\* the button "Calculate Momentum Scores" with the checkbox at uc: the rerun,
\* app.py:512-515, and calculate_momentum up to the call of
\* calculate_momentum_scores, app.py:118-251, which starts the timer thread
Calculate(uc) ==
    /\ app_pc = "idle"
    /\ LET after == UploaderSection(data_source, using_custom_data, uploaded_file,
                                    ticker_file_uploader, ss_momentum_results,
                                    formatted_data)
           file == IF after.using_custom_data THEN after.uploaded_file ELSE 0
       IN /\ using_custom_data' = (data_source # "default")
          /\ uploaded_file' = after.uploaded_file
          /\ ss_momentum_results' = after.momentum_results
          /\ formatted_data' = after.formatted_data
          /\ IF data_source # "default" /\ file = 0
               THEN UNCHANGED <<calculation_status, app_pc, timerVars, containerVars,
                                engineVars>>
             ELSE /\ calculation_status' = "calculating"
                  /\ main_status_container' = Message("Calculating momentum scores", 0)
                  /\ progress_container' = Message("Step 2/4", 0)
                  /\ detail_container' = Message("Downloading data for 500+ stocks", 0)
                  /\ calculation_timeout' = FALSE
                  /\ timer_pc' = "test"
                  /\ wait_time' = 0
                  /\ app_pc' = "calling"
                  /\ BeginRun(uc, IF data_source = "default" THEN 0 ELSE file, TRUE)
    /\ UNCHANGED <<data_source, ticker_file_uploader, downloadVars>>

\* the call of calculate_momentum_scores is over and its locals are gone
EndRun ==
    /\ pc' = "idle"
    /\ result' = NoResult
    /\ ResetRun
    /\ UNCHANGED <<market, clockVars, cacheVars, runs, paramVars, viewVars>>

\* calculate_momentum_scores has returned or raised: the script thread sets
\* the flag, app.py:253 and 256, and after an exception reports it and
\* returns, app.py:258-261
CalculationReturns ==
    /\ app_pc = "calling"
    /\ pc = "done"
    /\ calculation_timeout' = TRUE
    /\ IF IsRaised(result)
         THEN /\ main_status_container' = Message("Error during calculation", 0)
              /\ detail_container' = Message("There was an unexpected error", 0)
              /\ UNCHANGED progress_container
              /\ calculation_status' = "error"
              /\ app_pc' = "idle"
              /\ EndRun
       ELSE /\ app_pc' = "returned"
            /\ UNCHANGED <<containerVars, calculation_status, engineVars>>
    /\ UNCHANGED <<timer_pc, wait_time, data_source, using_custom_data, uploaded_file,
                   ticker_file_uploader, ss_momentum_results, formatted_data,
                   downloadVars>>

\* the rest of calculate_momentum, app.py:264-309: the result is stored and
\* the containers cleared, or the error value is reported
ShowResults ==
    /\ app_pc = "returned"
    /\ IF ~IsError(result)
         THEN /\ ss_momentum_results' = result
              /\ formatted_data' = format_momentum_data(result)
              /\ main_status_container' = Message("Momentum calculation completed", 0)
              /\ progress_container' = Message("", 0)
              /\ detail_container' = Message("", 0)
              /\ calculation_status' = "complete"
       ELSE /\ UNCHANGED <<ss_momentum_results, formatted_data>>
            /\ main_status_container' = Message("Error calculating momentum", 0)
            /\ progress_container' = Message("", 0)
            /\ detail_container' = Message("Consider using a smaller data set", 0)
            /\ calculation_status' = "error"
    /\ app_pc' = "idle"
    /\ EndRun
    /\ UNCHANGED <<timerVars, data_source, using_custom_data, uploaded_file,
                   ticker_file_uploader, downloadVars>>

\* what a step of the timer thread leaves alone besides its own variables
TimerFrame ==
    UNCHANGED <<engineVars, downloadVars, app_pc, main_status_container, sessionVars>>

\* update_waiting_message evaluates the condition of its loop, app.py:211
TimerTest ==
    /\ timer_pc = "test"
    /\ timer_pc' = IF wait_time < MaxWaitTime /\ ~calculation_timeout
                     THEN "sleep" ELSE "final_test"
    /\ UNCHANGED <<calculation_timeout, wait_time, progress_container, detail_container>>
    /\ TimerFrame

\* time.sleep(update_interval) is over, app.py:212-213
TimerWake ==
    /\ timer_pc = "sleep"
    /\ wait_time' = wait_time + UpdateInterval
    /\ timer_pc' = "caption"
    /\ UNCHANGED <<calculation_timeout, progress_container, detail_container>>
    /\ TimerFrame

\* app.py:215-216
TimerCaption ==
    /\ timer_pc = "caption"
    /\ timer_pc' = "progress"
    /\ detail_container' = IF wait_time >= 60 THEN Message("Still working", wait_time)
                           ELSE detail_container
    /\ UNCHANGED <<calculation_timeout, wait_time, progress_container>>
    /\ TimerFrame

\* app.py:218-225
TimerProgress ==
    /\ timer_pc = "progress"
    /\ timer_pc' = "test"
    /\ progress_container' = IF wait_time >= 120
                               THEN Message("Taking longer than expected", 0)
                             ELSE progress_container
    /\ UNCHANGED <<calculation_timeout, wait_time, detail_container>>
    /\ TimerFrame

\* the test after the loop and the flag, app.py:228-229
TimerFinalTest ==
    /\ timer_pc = "final_test"
    /\ IF wait_time >= MaxWaitTime /\ ~calculation_timeout
         THEN calculation_timeout' = TRUE /\ timer_pc' = "too_long"
       ELSE calculation_timeout' = calculation_timeout /\ timer_pc' = "ended"
    /\ UNCHANGED <<wait_time, progress_container, detail_container>>
    /\ TimerFrame

\* the timeout message, app.py:230-237
TimerTooLong ==
    /\ timer_pc = "too_long"
    /\ timer_pc' = "ended"
    /\ progress_container' = Message("Taking too long", 0)
    /\ detail_container' = Message("Try using cached data", 0)
    /\ UNCHANGED <<calculation_timeout, wait_time>>
    /\ TimerFrame

(* ------------------ a calculation and its timer thread ----------------- *)

\* histories that are scored, and histories below the minimum
TimerMarkets ==
    { CacheMarket,
      [s \in Symbols |-> Series(MinObservations - 1, MaxDate, "saw5")] }

InitTimer ==
    /\ market \in TimerMarkets
    /\ InitRun

NextTimer ==
    \/ \E uc \in BOOLEAN : runs = 0 /\ Calculate(uc)
    \/ LoadPrices({})
    \/ ScoreStep(0, FALSE)
    \/ RankAndReturn(BOOLEAN, {"written"})
    \/ CalculationReturns
    \/ ShowResults
    \/ TimerTest
    \/ TimerWake
    \/ TimerCaption
    \/ TimerProgress
    \/ TimerFinalTest
    \/ TimerTooLong

\* one press of Calculate on the default list: the script thread and the
\* timer thread, in any interleaving
SpecTimer == InitTimer /\ [][NextTimer]_vars

(* ------------------- the data source and its results ------------------- *)

InitDashboardSession ==
    /\ market = CacheMarket
    /\ InitRun

NextDashboard ==
    \/ UseDefaultSP500
    \/ UseCustomList
    \/ \E file \in Uploads : UploadFile(file)
    \/ \E uc \in BOOLEAN : runs < MaxRuns /\ Calculate(uc)
    \/ \E missing \in {{}, Symbols} : LoadPrices(missing)
    \/ ScoreStep(0, FALSE)
    \/ RankAndReturn({TRUE}, {"written"})
    \/ CalculationReturns
    \/ ShowResults

\* the events of a session between calculations: the two buttons of the data
\* source, the file uploader and Calculate.  The timer thread, which writes
\* to the containers only, is left out
SpecDashboard == InitDashboardSession /\ [][NextDashboard]_vars

(* --------------------- calculations one after another ------------------ *)

\* short histories, scored in fallback mode, and histories of a full window
RepeatMarkets == {CacheMarket, SharedMarket}

InitRepeat ==
    /\ market \in RepeatMarkets
    /\ InitRun

NextRepeat ==
    \/ \E uc \in BOOLEAN : runs < MaxRuns /\ Calculate(uc)
    \/ LoadPrices({})
    \/ \E elapsed \in {0, MaxCalculationTime + 1} : ScoreStep(elapsed, FALSE)
    \/ RankAndReturn({TRUE}, {"written"})
    \/ CalculationReturns
    \/ ShowResults

\* Calculate pressed again and again on the default list, one market and one
\* clock reading: the same prices and the same date range.  The time the
\* scoring loop has taken is the one thing that differs between the runs
SpecRepeat == InitRepeat /\ [][NextRepeat]_vars

(* ---------------------- the classifier on its own ---------------------- *)

\* a today view of k ranked symbols, the symbols named 1..k by their rank
TodayView(k) ==
    List([r \in 1..k |-> [symbol |-> r, momentum |-> Frac(k - r, 1), factor_rank |-> r]])

\* the Symbol column of a ticker table for the symbols 1..k: every symbol
\* once, but symbol omit left out (0: none) and symbol dup listed twice
TickerTable(k, omit, dup) ==
    LET Kept(sym) == sym # omit
    IN SelectSeq(List([i \in 1..k |-> i]), Kept) \o (IF dup = 0 THEN <<>> ELSE <<dup>>)

\* the ticker tables the classifier is given with a today view of k symbols
TickerTables(k) ==
    {TickerTable(k, omit, dup) : omit \in {0, k} \cap 0..k, dup \in {0, 1} \cap 0..k}

InitFmt ==
    /\ market = [s \in Symbols |-> <<>>]
    /\ InitApp
    /\ InitEnv
    /\ InitLocals
    /\ pc = "done"
    /\ formatted = NoResult
    /\ stocks_to_trade = NoResult
    /\ \/ result = Error("No valid momentum values found")
       \/ \E k \in 1..MaxK : \E tickers \in TickerTables(k) :
            result = [today_sorted |-> TodayView(k), tickers_info |-> tickers,
                      last_date |-> MaxDate]

NextFmt ==
    \/ FormatMomentumData
    \/ \E n \in 0..MaxN : GetTopBottomStocks(n)

\* format_momentum_data and get_top_bottom_stocks on every today view of up
\* to MaxK ranked symbols
SpecFmt == InitFmt /\ [][NextFmt]_vars

(* ------------------------- claims: the scoring pass -------------------- *)

Succeeded == pc = "done" /\ IsResult(result)

\* a combined table by date: date -> symbol with a row on that date -> row
ByDate(cd) ==
    Table([d \in Calendar |->
             LET at == Table([s \in DOMAIN cd |-> FindDate(cd[s], d, 1, Len(cd[s]))])
             IN Table([s \in {t \in DOMAIN cd : at[t] > 0} |-> cd[s][at[s]]])])

\* the symbols with a defined momentum among the rows of one date
Defined(rows) == {s \in DOMAIN rows : notna(rows[s].momentum)}

\* s comes before t in the rows of a date (the index order of combined)
RowBefore(s, t) ==
    \E i, j \in 1..Len(SymbolOrder) : i < j /\ SymbolOrder[i] = s /\ SymbolOrder[j] = t

\* C1: after a successful run, on every date the factor_rank values of the
\* symbols with a defined momentum are exactly 1..K, each once, K the number
\* of those symbols; a symbol with an undefined momentum has no rank
C1_RanksArePermutation ==
    Succeeded =>
      LET on == ByDate(result.combined_data)
      IN \A d \in Calendar :
           /\ {on[d][s].factor_rank : s \in Defined(on[d])} = 1..Cardinality(Defined(on[d]))
           /\ \A s \in DOMAIN on[d] \ Defined(on[d]) : on[d][s].factor_rank = 0

\* a successful run with a date on which three symbols are ranked and a date
\* on which a ranked symbol stands beside an unranked one
C1_Witness ==
    /\ Succeeded
    /\ LET on == ByDate(result.combined_data)
       IN /\ \E d \in Calendar : Cardinality(Defined(on[d])) = 3
          /\ \E d \in Calendar : Defined(on[d]) # {} /\ DOMAIN on[d] # Defined(on[d])

\* the largest date on which some symbol has a defined, ranked momentum
MaxRankedDate(cd) ==
    LET on == ByDate(cd)
        ranked == {d \in Calendar : \E s \in Defined(on[d]) : on[d][s].factor_rank > 0}
    IN CHOOSE d \in ranked : \A e \in ranked : e <= d

\* C2: the last_date of a successful run is the maximum date on which at
\* least one symbol has a defined, ranked momentum
C2_LastDateIsMax ==
    Succeeded => result.last_date = MaxRankedDate(result.combined_data)

\* C4: within a date, the symbol with the strictly higher momentum has the
\* strictly smaller factor_rank, and of two symbols with equal momentum the
\* one whose row comes first has the smaller factor_rank
C4_StableDescending ==
    Succeeded =>
      LET on == ByDate(result.combined_data)
      IN \A d \in Calendar :
           \A s, t \in Defined(on[d]) :
             /\ MomLess(on[d][t].momentum, on[d][s].momentum)
                  => on[d][s].factor_rank < on[d][t].factor_rank
             /\ MomEq(on[d][s].momentum, on[d][t].momentum) /\ RowBefore(s, t)
                  => on[d][s].factor_rank < on[d][t].factor_rank

\* a successful run with a date that holds both a tie and a strict order
C4_Witness ==
    /\ Succeeded
    /\ LET on == ByDate(result.combined_data)
       IN \E d \in Calendar :
            \E s, t, u \in Defined(on[d]) :
              /\ s # t
              /\ MomEq(on[d][s].momentum, on[d][t].momentum)
              /\ MomLess(on[d][u].momentum, on[d][s].momentum)

\* the closes of a symbol's rows
ClosesOf(rows) == List([i \in 1..Len(rows) |-> rows[i].close])

\* C5: a scored symbol with at least 252 observations has, on every date from
\* its 252nd observation on, the primary-mode score of the 252 closes that
\* end on that date
C5_PrimaryFromObservation252 ==
    pc = "done" =>
      \A s \in DOMAIN momentum_values :
        Len(prices[s]) >= Window =>
          \A p \in Window..Len(prices[s]) :
            momentum_values[s][p] =
              momentum(SubSeq(ClosesOf(prices[s]), p - Window + 1, p))

\* C10: a scored symbol with n observations, 126 <= n < 252, has with
\* w = min(126, n - 1) the momentum (close[i] - close[i-w]) / close[i-w] on
\* its i-th observation (0-based) for i >= w and none for i < w: n - w scores
C10_FallbackScores ==
    pc = "done" =>
      \A s \in DOMAIN momentum_values :
        LET n == Len(prices[s])
            w == IF FallbackWindow < n - 1 THEN FallbackWindow ELSE n - 1
            close == ClosesOf(prices[s])
            series == momentum_values[s]
        IN (FallbackMin <= n /\ n < Window) =>
             /\ \A i \in 0..(n - 1) :
                  IF i >= w
                    THEN /\ notna(series[i + 1])
                         /\ MomEq(series[i + 1],
                                  Frac(close[i + 1] - close[i - w + 1], close[i - w + 1]))
                  ELSE ~notna(series[i + 1])
             /\ Cardinality({p \in 1..n : notna(series[p])}) = n - w

\* a finished run that scored a symbol of 126 observations and one of more
\* than 127, with a positive and a negative fallback score
C10_Witness ==
    /\ pc = "done"
    /\ \E s, t \in DOMAIN momentum_values :
         /\ Len(prices[s]) = FallbackMin
         /\ notna(momentum_values[s][FallbackMin])
         /\ Len(prices[t]) > FallbackMin + 1 /\ Len(prices[t]) < Window
         /\ \E p, q \in 1..Len(prices[t]) :
              /\ notna(momentum_values[t][p]) /\ momentum_values[t][p].sgn = 1
              /\ notna(momentum_values[t][q]) /\ momentum_values[t][q].sgn = -1

(* ------------------------- claims: the symbol filter ------------------- *)

\* the symbols of the rows of a today view
TodaySymbols(today) == {today[i].symbol : i \in 1..Len(today)}

\* C11: after a successful run a requested symbol with fewer than 126 closes
\* is listed in excluded_symbols and has no row in momentum_data,
\* combined_data or today_sorted; every requested symbol is either excluded
\* or kept in the price table, never both
C11_ExcludedHaveNoRows ==
    Succeeded =>
      \A s \in SeqToSet(symbols_all) :
        /\ Len(market[s]) < 126 =>
             /\ s \in SeqToSet(result.excluded_symbols)
             /\ s \notin DOMAIN result.momentum_data
             /\ s \notin DOMAIN result.combined_data
             /\ s \notin TodaySymbols(result.today_sorted)
        /\ (s \in SeqToSet(result.excluded_symbols)) # (s \in DOMAIN prices)

\* a successful run that excluded a symbol of 125 closes and kept another
C11_Witness ==
    /\ Succeeded
    /\ \E s, t \in SeqToSet(symbols_all) :
         /\ Len(market[s]) = 125
         /\ s \in SeqToSet(result.excluded_symbols)
         /\ t \in DOMAIN result.combined_data

(* ------------------------ claims: partial downloads -------------------- *)

\* the requested symbols the download delivered no closes for
MissingSymbols == SeqToSet(symbols_all) \ SeqToSet(successful_symbols)

\* what a run on the symbols of the set alone returns, the download complete
\* and no symbol cut off
RunOn(symbols) ==
    LET kept == {s \in symbols : Len(market[s]) >= 126}
        pr == Table([s \in kept |-> market[s]])
        mv == Table([s \in kept |-> MomentumSeries(market[s])])
    IN IF kept = {} THEN Error("No symbols with sufficient price history")
       ELSE Ranked(pr, mv, Restrict(SymbolOrder, kept), df_tickers,
                   Restrict(SymbolOrder, symbols \ kept))

\* C14: when some requested symbols yield no price data and a remaining
\* symbol has a rankable momentum, the run returns a result whose tables are
\* those of a run on the remaining symbols alone; the missing symbols are in
\* excluded_symbols and in no table
C14_PartialUniverse ==
    pc = "done" =>
      LET alone == RunOn(SeqToSet(successful_symbols))
      IN IsResult(alone) =>
           /\ IsResult(result)
           /\ result.momentum_data = alone.momentum_data
           /\ result.combined_data = alone.combined_data
           /\ result.valid_dates = alone.valid_dates
           /\ result.last_date = alone.last_date
           /\ result.today_sorted = alone.today_sorted
           /\ MissingSymbols \subseteq SeqToSet(result.excluded_symbols)
           /\ MissingSymbols \cap DOMAIN result.combined_data = {}
           /\ MissingSymbols \cap TodaySymbols(result.today_sorted) = {}

\* a finished run with one symbol missing and two symbols in the today view
C14_Witness ==
    /\ Succeeded
    /\ Cardinality(MissingSymbols) = 1
    /\ Len(result.today_sorted) = 2

(* --------------------------- claims: the today view -------------------- *)

\* the rows of one date in a combined table: symbol -> row
RowsOn(cd, d) ==
    LET at == Table([s \in DOMAIN cd |-> FindDate(cd[s], d, 1, Len(cd[s]))])
    IN Table([s \in {t \in DOMAIN cd : at[t] > 0} |-> cd[s][at[s]]])

\* C18: the today view of a successful run holds exactly the symbols with a
\* defined momentum on last_date, each once, with the rank and momentum of
\* that date, in ascending order of factor_rank, the ranks being 1..K for the
\* K rows of the view
C18_TodayView ==
    Succeeded =>
      LET rows == RowsOn(result.combined_data, result.last_date)
          today == result.today_sorted
      IN /\ TodaySymbols(today) = Defined(rows)
         /\ Len(today) = Cardinality(Defined(rows))
         /\ \A i \in 1..Len(today) :
              /\ today[i].factor_rank = i
              /\ today[i].factor_rank = rows[today[i].symbol].factor_rank
              /\ today[i].momentum = rows[today[i].symbol].momentum

\* a today view of three symbols whose rank order is not their index order
C18_Witness ==
    /\ Succeeded
    /\ Len(result.today_sorted) = 3
    /\ \E i, j \in 1..3 :
         i < j /\ RowBefore(result.today_sorted[j].symbol, result.today_sorted[i].symbol)

\* a today view of two symbols beside a symbol that has a row on last_date
\* without a momentum
C18_UndefinedRowLeftOut ==
    /\ Succeeded
    /\ Len(result.today_sorted) = 2
    /\ LET rows == RowsOn(result.combined_data, result.last_date)
       IN DOMAIN rows # Defined(rows)

(* ------------------------- claims: the scoring loop -------------------- *)

\* the symbols the scoring loop has taken, and those it has not
Processed == {symbols_to_process[k] : k \in 1..processed_symbols}

Unprocessed == SeqToSet(symbols_to_process) \ Processed

\* the rows of a symbol in a combined table carry no momentum and no rank
Unscored(rows) ==
    \A p \in 1..Len(rows) : ~notna(rows[p].momentum) /\ rows[p].factor_rank = 0

\* C19: the time budget is checked between symbols.  At every point of the
\* loop and after it, a scored symbol has all the observations of its price
\* rows and a symbol the loop has not taken has none; when the loop stops
\* early the run goes on to rank the symbols scored so far, and the symbols
\* not taken have no momentum and no rank in its tables
C19_BudgetBetweenSymbols ==
    pc \in {"score", "rank", "done"} =>
      /\ DOMAIN momentum_values \subseteq Processed
      /\ \A s \in DOMAIN momentum_values :
           momentum_values[s] = MomentumSeries(prices[s])
      /\ (pc = "done" /\ Unprocessed # {}) =>
           /\ result = IF DOMAIN momentum_values = {}
                         THEN Error("Failed to calculate momentum for any stocks")
                       ELSE Ranked(prices, momentum_values, symbols_to_process,
                                   df_tickers, excluded_symbols)
           /\ IsResult(result) =>
                /\ DOMAIN result.momentum_data \cap Unprocessed = {}
                /\ TodaySymbols(result.today_sorted) \cap Unprocessed = {}
                /\ \A u \in Unprocessed : Unscored(result.combined_data[u])

\* a successful run whose loop stopped after the first of three symbols
C19_Witness ==
    /\ Succeeded
    /\ Len(symbols_to_process) = 3
    /\ processed_symbols = 1
    /\ DOMAIN momentum_values = {symbols_to_process[1]}

\* the symbols whose scoring raised
Faulted == Processed \ DOMAIN momentum_values

\* what the run returns when the symbols of the set are not in the price
\* table
RunWithout(absent) ==
    LET kept == DOMAIN prices \ absent
    IN IF DOMAIN momentum_values = {}
         THEN Error("Failed to calculate momentum for any stocks")
       ELSE Ranked(Table([s \in kept |-> prices[s]]), momentum_values,
                   Restrict(symbols_to_process, kept), df_tickers, excluded_symbols)

\* C20: a fault while scoring a symbol does not end the run.  The run
\* returns, the faulted symbol has no momentum and no rank, and the tables
\* hold for every other symbol what they hold in a run without the faulted
\* symbol
C20_FaultContained ==
    (pc = "done" /\ symbols_to_process # <<>>) =>
      LET without == RunWithout(Faulted)
      IN /\ ~IsRaised(result)
         /\ IsResult(result) <=> IsResult(without)
         /\ IsResult(result) =>
              /\ result.momentum_data = without.momentum_data
              /\ result.valid_dates = without.valid_dates
              /\ result.last_date = without.last_date
              /\ result.today_sorted = without.today_sorted
              /\ \A s \in DOMAIN prices \ Faulted :
                   result.combined_data[s] = without.combined_data[s]
              /\ \A s \in Faulted : Unscored(result.combined_data[s])

\* a successful run whose first symbol faulted and whose other two symbols
\* are in the today view
C20_Witness ==
    /\ Succeeded
    /\ Len(symbols_to_process) = 3
    /\ Faulted = {symbols_to_process[1]}
    /\ Len(result.today_sorted) = 2

(* --------------------------- claims: error values ---------------------- *)

\* some symbol was scored and no score of any symbol on any date is defined
NoDefinedMomentum ==
    /\ DOMAIN momentum_values # {}
    /\ \A s \in DOMAIN momentum_values :
         \A p \in 1..Len(momentum_values[s]) : ~notna(momentum_values[s][p])

\* C12: a run after whose scoring no date has a symbol with a defined
\* momentum returns the error value, a record of nothing but the message:
\* no exception, no ranks, no last_date
C12_NoValidMomentumIsError ==
    (pc = "done" /\ NoDefinedMomentum) =>
      result = Error("No valid momentum values found")

\* a finished run that scored two symbols, neither with a defined score
C12_Witness ==
    /\ pc = "done"
    /\ NoDefinedMomentum
    /\ Cardinality(DOMAIN momentum_values) >= 2
    /\ IsError(result)

\* C13: a run that obtained price data but kept no symbol of at least 126
\* observations, or scored no symbol at all, returns an error value, not a
\* result with an empty table, and raises nothing
C13_NothingScoredIsError ==
    (pc = "done" /\ successful_symbols # <<>> /\ DOMAIN momentum_values = {}) =>
      result = IF \A s \in SeqToSet(successful_symbols) : Len(market[s]) < 126
                 THEN Error("No symbols with sufficient price history")
               ELSE Error("Failed to calculate momentum for any stocks")

\* a finished run that kept three symbols and scored none of them
C13_Witness ==
    /\ pc = "done"
    /\ Len(symbols_to_process) = 3
    /\ DOMAIN momentum_values = {}
    /\ IsError(result)

\* a finished run that obtained closes and kept no symbol
C13_NoSymbolKept ==
    /\ pc = "done"
    /\ successful_symbols # <<>>
    /\ DOMAIN prices = {}
    /\ IsError(result)

(* ---------------------- claims: the cache's entries -------------------- *)

\* the call was answered from the cache: it returned a result without
\* loading a ticker table
AnsweredFromCache == pc = "done" /\ IsResult(result) /\ df_tickers = <<>>

\* the step in which a run saves its result
SaveStep == pc = "rank" /\ pc' = "done" /\ use_cache /\ IsResult(result')

\* C15: right after save_to_cache(key, payload), load_from_cache(key) returns
\* the payload, and load_from_cache of any other key returns what it returned
\* before the save
C15_RoundTrip ==
    [][SaveStep =>
         /\ load_from_cache(cache_key, TRUE)' = result'
         /\ \A k \in DOMAIN cache' \ {cache_key} :
              load_from_cache(k, TRUE)' = load_from_cache(k, TRUE)]_vars

\* a run has saved its result beside the entry of another key, and a load
\* of its key returns the result
C15_Witness ==
    /\ Succeeded
    /\ use_cache
    /\ df_tickers # <<>>
    /\ Cardinality(DOMAIN cache) = 2
    /\ load_from_cache(cache_key, TRUE) = result

\* the step in which a run looks up a key that has an entry
LookupStep == pc = "idle" /\ pc' # "idle" /\ use_cache' /\ cache_key' \in DOMAIN cache

\* C16: load_from_cache returns the entry of its key exactly when the entry
\* is at most one day old, one day included, otherwise it returns a miss; it
\* leaves every entry as it is
C16_ServedUpToOneDay ==
    [][LookupStep =>
         LET entry == cache[cache_key']
         IN /\ (pc' = "done" /\ result' = entry.payload)
                 <=> (now - entry.mtime <= 86400)
            /\ (pc' = "load") <=> (now - entry.mtime > 86400)
            /\ cache' = cache
            /\ cache_dir' = cache_dir]_vars

\* a run was answered from an entry exactly one day old
C16_Witness ==
    /\ AnsweredFromCache
    /\ cache_key \in DOMAIN cache
    /\ now - cache[cache_key].mtime = 86400

\* a run found an entry older than a day, computed, and the entry is there
C16_StaleEntryKept ==
    /\ pc = "load"
    /\ use_cache
    /\ cache_key \in DOMAIN cache
    /\ now - cache[cache_key].mtime = 86401

(* --------------------------- claims: the classifier -------------------- *)

\* the dashboard has a display table
Formatted == formatted # NoResult /\ ~IsError(formatted)

\* the number of ranked symbols of the today view
RankedToday == Len(result.today_sorted)

\* the labels the rows of a symbol carry in a display table
LabelsOf(display_df, symbol) ==
    {display_df[i].classification :
       i \in {j \in 1..Len(display_df) : display_df[j].symbol = symbol}}

\* C3: of 100 ranked symbols, ranks 1-10 are labelled Strong Buy, ranks 11-20
\* Buy, ranks 91-100 Strong Sell, ranks 81-90 Sell and ranks 21-80 Neutral
C3_BoundariesAt100 ==
    (Formatted /\ RankedToday = 100) =>
      \A i \in 1..Len(formatted.display_df) :
        LET r == formatted.display_df[i].factor_rank
        IN formatted.display_df[i].classification =
             CASE r \in 1..10 -> "Strong Buy"
               [] r \in 11..20 -> "Buy"
               [] r \in 21..80 -> "Neutral"
               [] r \in 81..90 -> "Sell"
               [] r \in 91..100 -> "Strong Sell"

\* C6: the label of a symbol is the same whatever the ticker table given
\* with the today view (a symbol listed twice, a symbol left out), and the
\* count used for the thresholds is the number of ranked symbols
C6_LabelsIgnoreTickerTable ==
    Formatted =>
      /\ Len(formatted.display_df) = RankedToday
      /\ \A tickers \in TickerTables(RankedToday) :
           LET other == format_momentum_data(
                          [today_sorted |-> result.today_sorted,
                           tickers_info |-> tickers,
                           last_date |-> result.last_date])
           IN \A k \in 1..RankedToday :
                LabelsOf(other.display_df, result.today_sorted[k].symbol)
                  = LabelsOf(formatted.display_df, result.today_sorted[k].symbol)

\* the label of rank r among K ranked symbols, decided in the order Strong
\* Sell, Sell, Strong Buy, Buy, Neutral with t = floor(K/10), b = floor(9K/10)
LabelByPriority(r, K) ==
    LET t == K \div 10
        b == (9 * K) \div 10
    IN IF r >= b THEN "Strong Sell"
       ELSE IF b - t <= r /\ r < b THEN "Sell"
       ELSE IF r <= t THEN "Strong Buy"
       ELSE IF t < r /\ r <= 2 * t THEN "Buy"
       ELSE "Neutral"

\* C9: every rank r of the K ranked symbols has exactly one label, the first
\* that applies of Strong Sell (r >= b), Sell (b - t <= r < b), Strong Buy
\* (r <= t), Buy (t < r <= 2t), Neutral, with t = floor(0.1 K), b = floor(0.9 K)
C9_LabelByPriority ==
    Formatted =>
      \A k \in 1..RankedToday :
        LabelsOf(formatted.display_df, result.today_sorted[k].symbol)
          = {LabelByPriority(result.today_sorted[k].factor_rank, RankedToday)}

(* ------------------------ claims: top and bottom ----------------------- *)

\* C17: get_top_bottom_stocks(result, n) returns c = min(n, floor(K/2)) rows
\* from the top of the today view of K rows with side 1, then the last c rows
\* with side -1; no symbol is in both, the middle row of an odd K is in
\* neither, K = 1 gives nothing; for an error result it returns None
C17_TopBottomSlices ==
    [][\A n \in 0..MaxN :
         GetTopBottomStocks(n) =>
           IF IsError(result) THEN stocks_to_trade'.returned = None
           ELSE LET today == result.today_sorted
                    K == Len(today)
                    c == IF n < K \div 2 THEN n ELSE K \div 2
                    got == stocks_to_trade'.returned
                IN /\ Len(got) = 2 * c
                   /\ \A i \in 1..c :
                        /\ got[i].symbol = today[i].symbol
                        /\ got[i].factor_rank = today[i].factor_rank
                        /\ got[i].side = 1
                        /\ got[c + i].symbol = today[K - c + i].symbol
                        /\ got[c + i].factor_rank = today[K - c + i].factor_rank
                        /\ got[c + i].side = -1
                   /\ \A i, j \in 1..(2 * c) : i # j => got[i].symbol # got[j].symbol
                   /\ K % 2 = 1 =>
                        \A i \in 1..(2 * c) : got[i].symbol # today[(K + 1) \div 2].symbol
                   /\ K = 1 => got = <<>>]_vars

\* the top and bottom of a today view of five rows, clamped to two rows each
C17_Witness ==
    /\ IsResult(result)
    /\ Len(result.today_sorted) = 5
    /\ stocks_to_trade # NoResult
    /\ Len(stocks_to_trade.returned) = 4

(* ------------------------------ claims: the cache ---------------------- *)

\* C7: a call for an uploaded ticker file is never answered from a cache
\* entry that a call for a different uploaded file wrote
C7_NoEntryOfAnotherUpload ==
    (AnsweredFromCache /\ custom_file # 0) =>
      result.tickers_info = TickerFile(custom_file)

\* C8: no exception leaves calculate_momentum_scores because the cache could
\* not be written or read, and a call that was not answered from the cache
\* returns what it returns without a cache
C8_CacheFailuresNotFatal ==
    pc = "done" =>
      /\ ~IsRaised(result)
      /\ (df_tickers # <<>> /\ DOMAIN momentum_values # {}) =>
           result = Ranked(prices, momentum_values, symbols_to_process,
                           df_tickers, excluded_symbols)

(* ----------------------- claims: the display table --------------------- *)

\* the positions of the rows of a display table that carry a label
Labelled(display_df, label) ==
    {i \in 1..Len(display_df) : display_df[i].classification = label}

\* rows are the first ten (or all, if fewer) rows of display_df that carry
\* label, in the order of display_df, which is ascending in rank
FirstTenLabelled(rows, display_df, label) ==
    LET at == Labelled(display_df, label)
        Before(i) == Cardinality({j \in at : j < i})
        first == {i \in at : Before(i) < 10}
    IN /\ Len(rows) = Cardinality(first)
       /\ \A i \in first : rows[Before(i) + 1] = display_df[i]
       /\ \A m \in 1..Len(rows) : rows[m].classification = label
       /\ \A m \in 1..(Len(rows) - 1) : rows[m].factor_rank <= rows[m + 1].factor_rank

\* C22: top_stocks is the first 10 rows (fewer if there are fewer) labelled
\* Strong Buy and bottom_stocks the first 10 rows labelled Strong Sell, each
\* in the ascending rank order of the display table; every row of top_stocks
\* is Strong Buy and every row of bottom_stocks is Strong Sell
C22_FirstTenOfEachEnd ==
    Formatted =>
      /\ FirstTenLabelled(formatted.top_stocks, formatted.display_df, "Strong Buy")
      /\ FirstTenLabelled(formatted.bottom_stocks, formatted.display_df, "Strong Sell")

\* a display table with more than ten Strong Buy and more than ten Strong
\* Sell rows, cut to ten each
C22_Witness ==
    /\ Formatted
    /\ Cardinality(Labelled(formatted.display_df, "Strong Buy")) > 10
    /\ Cardinality(Labelled(formatted.display_df, "Strong Sell")) > 10
    /\ Len(formatted.top_stocks) = 10
    /\ Len(formatted.bottom_stocks) = 10

\* a display table with fewer than ten rows of each label
C22_FewerThanTen ==
    /\ Formatted
    /\ Len(formatted.top_stocks) \in 1..9
    /\ Len(formatted.bottom_stocks) \in 1..9

\* C28: for every universe size K >= 1 the worst-ranked symbol (rank K) is
\* labelled Strong Sell, and for K < 10 no symbol is labelled Strong Buy or
\* Buy; a universe of one symbol labels that symbol Strong Sell
C28_WorstIsStrongSell ==
    Formatted =>
      LET K == RankedToday
      IN /\ LabelsOf(formatted.display_df, result.today_sorted[K].symbol) = {"Strong Sell"}
         /\ K < 10 =>
              \A i \in 1..Len(formatted.display_df) :
                formatted.display_df[i].classification \notin {"Strong Buy", "Buy"}

(* ------------------------ claims: the scoring mode --------------------- *)

\* C25: the scoring mode is chosen once per symbol from its number of
\* observations: a symbol with at least 252 observations has no momentum and
\* no rank on its first 252 dates (no fallback score, even where 126 or more
\* earlier closes exist); every score of a symbol with fewer than 252
\* observations is the simple return over its fallback window
C25_ModeOncePerSymbol ==
    Succeeded =>
      \A s \in DOMAIN result.momentum_data :
        LET rows == result.combined_data[s]
            n == Len(rows)
            w == IF FallbackWindow < n - 1 THEN FallbackWindow ELSE n - 1
        IN IF n >= Window
             THEN \A p \in 1..Window :
                    ~notna(rows[p].momentum) /\ rows[p].factor_rank = 0
           ELSE \A p \in 1..n :
                  notna(rows[p].momentum) =>
                    /\ p > w
                    /\ MomEq(rows[p].momentum,
                             Frac(rows[p].close - rows[p - w].close, rows[p - w].close))

\* a successful run with a symbol in primary mode that has a score on its
\* last date and none on an earlier date with more than 126 closes before
\* it, on which a symbol in fallback mode has a score
C25_Witness ==
    /\ Succeeded
    /\ \E s, t \in DOMAIN result.momentum_data :
         LET rows == result.combined_data[s]
             other == result.combined_data[t]
         IN /\ Len(rows) > Window
            /\ notna(rows[Len(rows)].momentum)
            /\ Len(other) < Window
            /\ \E p \in (FallbackWindow + 1)..Window :
                 LET q == FindDate(other, rows[p].date, 1, Len(other))
                 IN q > 0 /\ notna(other[q].momentum) /\ ~notna(rows[p].momentum)

(* ------------------- claims: what the cache is given ------------------- *)

\* C26: only successful results are written to the cache: the step that ends
\* a run in an error value leaves the cache as it is, every entry holds a
\* result, and a run that is answered from the cache is not answered with an
\* error
C26_OnlyResultsCached ==
    /\ [](\A k \in DOMAIN cache : IsResult(cache[k].payload))
    /\ [](pc = "done" /\ IsError(result) => df_tickers # <<>>)
    /\ [][(pc # "done" /\ pc' = "done" /\ IsError(result'))
            => (cache' = cache /\ cache_dir' = cache_dir)]_vars

\* a run with use_cache = True has ended in an error value beside the entry
\* of an earlier run, and there is no entry for its key
C26_Witness ==
    /\ pc = "done"
    /\ use_cache
    /\ IsError(result)
    /\ DOMAIN cache # {}
    /\ cache_key \notin DOMAIN cache

\* a later run with the key of a failed run computes again
C26_FailedRunRepeated ==
    /\ pc = "done"
    /\ use_cache
    /\ runs = MaxRuns
    /\ result = Error("No valid momentum values found")
    /\ cache = EmptyFcn

\* the steps of a run with use_cache = False, from the call to the return
UncachedStep == ~use_cache' /\ pc' # "idle"

\* C27: a run with use_cache = False neither reads nor writes the cache: no
\* step of it changes the entries or their modification times, whatever its
\* outcome, and its first step goes on to compute, also when a fresh entry
\* exists for its key
C27_UncachedRunLeavesCache ==
    [][UncachedStep =>
         /\ cache' = cache
         /\ cache_dir' = cache_dir
         /\ pc = "idle" => pc' = "load"]_vars

\* a run with use_cache = False has found a fresh entry for its key,
\* computed a result and left the entry as it was
C27_Witness ==
    /\ Succeeded
    /\ ~use_cache
    /\ df_tickers # <<>>
    /\ cache_key \in DOMAIN cache
    /\ now - cache[cache_key].mtime <= CacheValidDays * SecondsPerDay
    /\ cache[cache_key].payload # result

\* a run with use_cache = False has ended in an error value beside entries
C27_UncachedError ==
    /\ pc = "done"
    /\ ~use_cache
    /\ IsError(result)
    /\ DOMAIN cache # {}

(* --------------------------- claims: the download ---------------------- *)

\* the symbols download_individual_symbols has asked the supplier for
IndividuallyDownloaded ==
    List([i \in 1..Len(SingleCalls) |-> SingleCalls[i].symbol])

\* C23: with more than one symbol, whenever the last batch download ended in
\* an exception (one that was not retried), every symbol has been downloaded
\* individually when download_data_with_retry returns, on whatever attempt
\* the exception came
C23_ErrorFallsBackToSingles ==
    (dl_pc = "returned" /\ Len(dl_symbols) > 1 /\ BatchCalls # <<>>
       /\ BatchCalls[Len(BatchCalls)].outcome \in {"rate_limit", "error"})
      => IndividuallyDownloaded = dl_symbols

\* C24: download_data_with_retry returns a table and never raises; it makes
\* at most max_retries batch attempts; when every attempt gave an empty table
\* it has made exactly max_retries attempts and only then downloaded the
\* symbols one by one (more than one symbol) or returned an empty table (one
\* symbol); a batch attempt that gives a table with rows is the last call and
\* its table is returned
C24_BoundedRetries ==
    /\ [](/\ Len(BatchCalls) <= max_retries
          /\ SingleCalls # <<>> => Len(BatchCalls) = max_retries
          /\ dl_pc = "returned" => DOMAIN df = {"columns"}
          /\ (dl_pc = "returned"
                /\ \A i \in 1..Len(BatchCalls) : BatchCalls[i].outcome = "empty")
               => /\ Len(BatchCalls) = max_retries
                  /\ IF Len(dl_symbols) > 1
                       THEN IndividuallyDownloaded = dl_symbols
                     ELSE SingleCalls = <<>> /\ df = EmptyFrame
          /\ \A i \in 1..Len(yf_calls) :
               (yf_calls[i].kind = "batch" /\ yf_calls[i].outcome = "data")
                 => /\ i = Len(yf_calls)
                    /\ dl_pc = "returned"
                    /\ df = Frame(SeqToSet(dl_symbols)))
    /\ (dl_pc = "attempt" ~> dl_pc = "returned")

\* a call with three symbols and five retries has returned after five empty
\* batch attempts and three individual downloads
C24_Witness ==
    /\ dl_pc = "returned"
    /\ Len(dl_symbols) = 3
    /\ max_retries = DefaultMaxRetries
    /\ Len(BatchCalls) = DefaultMaxRetries
    /\ \A i \in 1..Len(BatchCalls) : BatchCalls[i].outcome = "empty"
    /\ Len(SingleCalls) = 3
    /\ df # EmptyFrame

\* a call with one symbol has returned an empty table after five empty
\* batch attempts
C24_OneSymbol ==
    /\ dl_pc = "returned"
    /\ Len(dl_symbols) = 1
    /\ Len(BatchCalls) = DefaultMaxRetries
    /\ \A i \in 1..Len(BatchCalls) : BatchCalls[i].outcome = "empty"
    /\ df = EmptyFrame

\* a call has returned the table of its third batch attempt
C24_DataAtOnce ==
    /\ dl_pc = "returned"
    /\ Len(yf_calls) = 3
    /\ yf_calls[3].outcome = "data"
    /\ yf_calls[3].kind = "batch"


\* the texts that only update_waiting_message writes
TimerMessages ==
    {"Still working", "Taking longer than expected", "Taking too long",
     "Try using cached data"}

\* C29: once calculate_momentum_scores has returned or raised and the script
\* thread has set calculation_timeout, no step writes a message of the timer
\* thread to the progress or the detail container
C29_TimerSilentAfterFinish ==
    [][app_pc # "calling" =>
         /\ detail_container' # detail_container =>
              detail_container'.text \notin TimerMessages
         /\ progress_container' # progress_container =>
              progress_container'.text \notin TimerMessages]_vars

\* the calculation is over and a message of the timer thread is on the page
C29_LateMessage ==
    /\ app_pc = "idle"
    /\ runs = 1
    /\ calculation_status = "complete"
    /\ detail_container.text = "Still working"


\* the ticker list of the data source that the session state selects
SelectedTickers ==
    IF data_source = "default" THEN TickerFile(0)
    ELSE IF uploaded_file # 0 THEN TickerFile(uploaded_file)
    ELSE <<>>

\* C30: between the events of a session, results held in the session state
\* were computed for the data source that is selected
C30_ResultsOfSelectedSource ==
    (app_pc = "idle" /\ ss_momentum_results # None) =>
        ss_momentum_results.tickers_info = SelectedTickers

\* results of the default list are held while the custom list is selected
C30_StaleAfterSwitch ==
    /\ app_pc = "idle"
    /\ data_source = "custom"
    /\ uploaded_file = 0
    /\ ss_momentum_results # None


\* the tables of two results agree: momentum values, factor_rank of every
\* (symbol, date), last_date and the today view
SameTables(a, b) ==
    /\ a.momentum_data = b.momentum_data
    /\ a.combined_data = b.combined_data
    /\ a.last_date = b.last_date
    /\ a.today_sorted = b.today_sorted

\* a run has returned a result and the session holds the result of an
\* earlier run on the same prices and dates
TwoResults ==
    /\ pc = "done"
    /\ IsResult(result)
    /\ ss_momentum_results # None

\* C21 as stated: any two runs on the same prices and dates return the same
\* tables
C21_RepeatedRunSameTables ==
    TwoResults => SameTables(result, ss_momentum_results)

\* C21: two runs on the same prices and dates that scored the same symbols
\* (the time budget stopped neither, or both before the same symbol) return
\* the same tables
C21_SameScoredSameTables ==
    (TwoResults /\ DOMAIN result.momentum_data = DOMAIN ss_momentum_results.momentum_data)
        => SameTables(result, ss_momentum_results)

\* a second run that computed its result, stopped by the budget before the
\* same symbol as the run before it
C21_Witness ==
    /\ TwoResults
    /\ runs = 2
    /\ ~use_cache
    /\ processed_symbols = 2
    /\ DOMAIN result.momentum_data = DOMAIN ss_momentum_results.momentum_data

\* a second run that scored every symbol, as the run before it
C21_FullRuns ==
    /\ TwoResults
    /\ runs = 2
    /\ ~use_cache
    /\ processed_symbols = Len(symbols_to_process)
    /\ DOMAIN result.momentum_data = DOMAIN ss_momentum_results.momentum_data

=============================================================================
